---- MODULE Spec2Model ----
(***************************************************************************)
(* A model of 3dtiles-geo-transform: the ECEF <-> geodetic conversions,    *)
(* the local-frame transforms and their composition.                       *)
(*                                                                         *)
(* Numbers.  A JavaScript number is modelled as a binary floating-point    *)
(* value with a SigBits-bit significand whose quantum is 2^-FracBits: the  *)
(* finite values are the integers n (|n| with at most SigBits significant  *)
(* bits) read as n / 2^FracBits, together with NaN, +Infinity, -Infinity.  *)
(* +, -, *, / and sqrt return the exact result rounded to the nearest such *)
(* value (ties to even), as IEEE 754 does; the Math functions are computed *)
(* to within a few quanta.  TLC's integers are 32 bits wide, so the        *)
(* integer n is kept as a sequence of limbs in base 2^15, least            *)
(* significant first, without leading zero limbs.                          *)
(*                                                                         *)
(* Temporaries.  Only({e : v \in {d}}) is e with v standing for the value  *)
(* of d: a const of the code is bound this way, so that d is evaluated     *)
(* once, before e.  Where consts depend on one another the bindings nest,  *)
(* and a function's body then reads from its last line upwards: the first  *)
(* const of the code is bound by the outermost Only, the return statement  *)
(* is the innermost expression.                                            *)
(***************************************************************************)
EXTENDS Integers, Sequences, FiniteSets, Bags, TLC

\* the element of a singleton
Only(S) == CHOOSE v \in S : TRUE

(* ----------------------------------------------------------------------- *)
(* Magnitudes: naturals as limb sequences in base 2^15.                    *)
(* ----------------------------------------------------------------------- *)
Base == 2^15

Limb(m, i) == IF 1 <= i /\ i <= Len(m) THEN m[i] ELSE 0

\* the function f on 1..n as the sequence <<f[1], ..., f[n]>>
Tup(f) == SubSeq(f, 1, Cardinality(DOMAIN f))

\* the sum of the naturals f[i]: the size of the bag with f[i] + 1 copies of
\* i, less one copy of each
Sum(f) == BagCardinality([i \in DOMAIN f |-> f[i] + 1]) - Cardinality(DOMAIN f)

\* without the leading zero limbs
MNorm(m) ==
  LET top == CHOOSE i \in 0..Len(m) :
               (i = 0 \/ m[i] # 0) /\ \A j \in (i + 1)..Len(m) : m[j] = 0
  IN  SubSeq(m, 1, top)

\* -1, 0, 1 as m < n, m = n, m > n
MCmp(m, n) ==
  IF Len(m) < Len(n) THEN -1
  ELSE IF Len(m) > Len(n) THEN 1
  ELSE LET d == {i \in 1..Len(m) : m[i] # n[i]}
       IN  IF d = {} THEN 0
           ELSE LET t == CHOOSE i \in d : \A j \in d : j <= i
                IN  IF m[t] < n[t] THEN -1 ELSE 1

\* m + n: limb i receives a carry when a lower limb generates one and the
\* limbs between pass it on
MAdd(m, n) ==
  LET len      == (IF Len(m) > Len(n) THEN Len(m) ELSE Len(n)) + 1
      s(i)     == Limb(m, i) + Limb(n, i)
      carry(i) == \E j \in 1..(i - 1) :
                    s(j) >= Base /\ \A k \in (j + 1)..(i - 1) : s(k) = Base - 1
  IN  MNorm(Tup([i \in 1..len |-> (s(i) + (IF carry(i) THEN 1 ELSE 0)) % Base]))

\* m - n, for m >= n
MSub(m, n) ==
  LET borrow(i) == \E j \in 1..(i - 1) :
                     m[j] < Limb(n, j) /\ \A k \in (j + 1)..(i - 1) : m[k] = Limb(n, k)
  IN  MNorm(Tup([i \in 1..Len(m) |->
                  (m[i] - Limb(n, i) - (IF borrow(i) THEN 1 ELSE 0) + Base) % Base]))

\* m * d, for a limb d
MMulLimb(m, d) ==
  MAdd(Tup([i \in 1..Len(m) |-> (m[i] * d) % Base]),
       <<0>> \o Tup([i \in 1..Len(m) |-> (m[i] * d) \div Base]))

\* m * n: column k collects the low halves of the limb products m[i] n[j]
\* with i + j = k + 1 and the high halves of those with i + j = k
MMul(m, n) ==
  LET lo(k) == Sum([i \in 1..Len(m) |-> (m[i] * Limb(n, k + 1 - i)) % Base])
      hi(k) == Sum([i \in 1..Len(m) |-> (m[i] * Limb(n, k + 1 - i)) \div Base])
  IN  Only({MAdd(Tup([k \in DOMAIN col |-> col[k] % Base]),
                 <<0>> \o Tup([k \in DOMAIN col |-> col[k] \div Base]))
              : col \in {[k \in 1..(Len(m) + Len(n)) |-> lo(k) + hi(k - 1)]}})

\* floor(m / d), for a limb d > 0: the limbs of m from the i-th down, r the
\* remainder carried from the limbs above
RECURSIVE MDivLimbFrom(_, _, _, _)
MDivLimbFrom(m, d, i, r) ==
  IF i = 0 THEN <<>>
  ELSE MDivLimbFrom(m, d, i - 1, (r * Base + m[i]) % d) \o <<(r * Base + m[i]) \div d>>

MDivLimb(m, d) == MNorm(MDivLimbFrom(m, d, Len(m), 0))

Zeros(k) == Tup([i \in 1..k |-> 0])

\* m * 2^k and floor(m / 2^k)
MShl(m, k) ==
  LET p == 2^(k % 15)
  IN  IF m = <<>> THEN <<>>
      ELSE Zeros(k \div 15) \o
           MNorm(Tup([i \in 1..(Len(m) + 1) |->
                       ((Limb(m, i) * p) % Base) + ((Limb(m, i - 1) * p) \div Base)]))

MShr(m, k) ==
  LET q == k \div 15
      p == 2^(k % 15)
  IN  IF q >= Len(m) THEN <<>>
      ELSE MNorm(Tup([i \in 1..(Len(m) - q) |->
                       (m[q + i] \div p) + (Limb(m, q + i + 1) % p) * (Base \div p)]))

\* the number of significant bits of d < 2^30, and of m
LimbBits(d) == CHOOSE b \in 0..30 : d < 2^b /\ (b = 0 \/ 2^(b - 1) <= d)
MBits(m) == IF m = <<>> THEN 0 ELSE 15 * (Len(m) - 1) + LimbBits(m[Len(m)])

MOdd(m) == m # <<>> /\ m[1] % 2 = 1

\* the remainder m mod 2^k is zero
MLowZero(m, k) ==
  \A i \in 1..Len(m) :
    /\ i <= k \div 15 => m[i] = 0
    /\ i = k \div 15 + 1 => m[i] % (2^(k % 15)) = 0

\* Long division: <<floor(m / n), m mod n>>, for n # <<>>.  The operands are
\* shifted to set the top bit of n's leading limb; each step takes in one limb
\* of m and yields one quotient limb, estimated from the leading limbs (Knuth's
\* algorithm D) and corrected downwards.
RECURSIVE MFixQ(_, _, _)
MFixQ(r, n, q) ==
  IF MCmp(MMulLimb(n, q), r) > 0 THEN MFixQ(r, n, q - 1) ELSE q

MQuotLimb(r, n) ==
  IF MCmp(r, n) < 0 THEN 0
  ELSE LET k   == Len(n)
           top == Limb(r, k + 1) * Base + Limb(r, k)
           est == top \div n[k]
       IN  MFixQ(r, n, IF est > Base - 1 THEN Base - 1 ELSE est)

\* one step: the quotient limb d of r1, the remainder with the next limb of m
\* appended, and r1 less d * n
MDivStep(n, r1) ==
  Only({<<d, IF d = 0 THEN r1 ELSE MSub(r1, MMulLimb(n, d))>> : d \in {MQuotLimb(r1, n)}})

RECURSIVE MDivAt(_, _, _, _, _)
MDivAt(m, n, i, r, q) ==
  IF i = 0 THEN <<q, r>>
  ELSE Only({MDivAt(m, n, i - 1, dr[2], <<dr[1]>> \o q)
               : dr \in {MDivStep(n, MNorm(<<m[i]>> \o r))}})

MDivShifted(ms, ns, s, skip) ==
  Only({<<MNorm(qr[1]), MShr(qr[2], s)>>
          : qr \in {MDivAt(ms, ns, Len(ms) - skip,
                           MNorm(SubSeq(ms, Len(ms) - skip + 1, Len(ms))), <<>>)}})

MDivMod(m, n) ==
  Only({Only({MDivShifted(ms, ns, s, IF Len(ms) < Len(ns) THEN Len(ms) ELSE Len(ns) - 1)
                : ms \in {MShl(m, s)}, ns \in {MShl(n, s)}})
          : s \in {15 - LimbBits(n[Len(n)])}})


(* ----------------------------------------------------------------------- *)
(* Numbers: the finite values n / 2^FracBits, NaN and the two infinities.  *)
(* ----------------------------------------------------------------------- *)
\* significand width of a JavaScript number (IEEE 754 binary64)
SigBits == 53

\* 2^FracBits as a magnitude: the quantum is 2^-60
One == <<0, 0, 0, 0, 1>>
FracBits == 15 * (Len(One) - 1)

NaN  == [k |-> "nan", neg |-> FALSE, mag |-> <<>>]
PInf == [k |-> "inf", neg |-> FALSE, mag |-> <<>>]
NInf == [k |-> "inf", neg |-> TRUE, mag |-> <<>>]
Inf(neg) == IF neg THEN NInf ELSE PInf
Fin(neg, m) == [k |-> "fin", neg |-> (neg /\ m # <<>>), mag |-> m]
Zero == Fin(FALSE, <<>>)

IsFin(a) == a.k = "fin"
IsNaN(a) == a.k = "nan"
IsZero(a) == a.k = "fin" /\ a.mag = <<>>

\* round(m / 2^d) to the nearest integer, ties to even
MRound(m, d) ==
  IF d = 0 THEN m
  ELSE Only({IF MOdd(MShr(m, d - 1)) /\ (MOdd(q) \/ ~MLowZero(m, d - 1))
             THEN MAdd(q, <<1>>) ELSE q
               : q \in {MShr(m, d)}})

\* The value m / 2^(FracBits + g) rounded to the format: the low g bits are
\* dropped, and more (d of them) when m has over SigBits significant bits.
MFormatBy(m, g, d) == IF d = 0 THEN m ELSE MShl(MRound(m, d), d - g)
MFormat(m, g) ==
  Only({MFormatBy(m, g, IF over > g THEN over ELSE g) : over \in {MBits(m) - SigBits}})

\* a small integer as a number
RECURSIVE MOfNat(_)
MOfNat(n) == IF n = 0 THEN <<>> ELSE <<n % Base>> \o MOfNat(n \div Base)
Int2Num(i) == Fin(i < 0, MShl(MOfNat(IF i < 0 THEN 0 - i ELSE i), FracBits))

FNeg(a) == IF a.k = "fin" THEN Fin(~a.neg, a.mag) ELSE IF a.k = "inf" THEN Inf(~a.neg) ELSE NaN

\* -1, 0, 1 for finite a, b
FCmp(a, b) ==
  IF a.neg # b.neg THEN (IF a.neg THEN -1 ELSE 1)
  ELSE MCmp(IF a.neg THEN b.mag ELSE a.mag, IF a.neg THEN a.mag ELSE b.mag)

\* a < b, false when either is NaN
FLt(a, b) ==
  CASE a.k = "nan" \/ b.k = "nan" -> FALSE
    [] a.k = "inf" -> a.neg /\ b # NInf
    [] b.k = "inf" -> ~b.neg
    [] OTHER -> FCmp(a, b) < 0

FLe(a, b) == a.k # "nan" /\ b.k # "nan" /\ (a = b \/ FLt(a, b))
\* Math.abs
FAbs(a) == IF a.k = "fin" THEN Fin(FALSE, a.mag) ELSE IF a.k = "inf" THEN PInf ELSE NaN

\* the sum of finite a and b before it is rounded
FAddExact(a, b) ==
  IF a.neg = b.neg THEN Fin(a.neg, MAdd(a.mag, b.mag))
  ELSE Only({IF c = 0 THEN Zero
             ELSE Fin(IF c > 0 THEN a.neg ELSE b.neg,
                      MSub(IF c > 0 THEN a.mag ELSE b.mag, IF c > 0 THEN b.mag ELSE a.mag))
               : c \in {MCmp(a.mag, b.mag)}})

FAdd(a, b) ==
  IF a.k = "fin" /\ b.k = "fin" THEN
    Only({Fin(e.neg, MFormat(e.mag, 0)) : e \in {FAddExact(a, b)}})
  ELSE IF a.k = "nan" \/ b.k = "nan" THEN NaN
  ELSE IF a.k = "inf" /\ b.k = "inf" THEN (IF a.neg = b.neg THEN a ELSE NaN)
  ELSE IF a.k = "inf" THEN a ELSE b

FSub(a, b) == FAdd(a, FNeg(b))

FMul(a, b) ==
  IF a.k = "fin" /\ b.k = "fin" THEN
    Fin(a.neg # b.neg, MFormat(MMul(a.mag, b.mag), FracBits))
  ELSE IF a.k = "nan" \/ b.k = "nan" \/ IsZero(a) \/ IsZero(b) THEN NaN
  ELSE Inf(a.neg # b.neg)

\* one guard bit and a sticky bit make the rounding of the quotient exact
FDiv(a, b) ==
  IF a.k = "fin" /\ b.k = "fin" THEN
    IF b.mag = <<>> THEN (IF a.mag = <<>> THEN NaN ELSE Inf(a.neg))
    ELSE Only({Fin(a.neg # b.neg,
                   MFormat(MAdd(MShl(qr[1], 1), IF qr[2] = <<>> THEN <<>> ELSE <<1>>), 2))
                 : qr \in {MDivMod(MShl(a.mag, FracBits + 1), b.mag)}})
  ELSE IF a.k = "nan" \/ b.k = "nan" \/ (a.k = "inf" /\ b.k = "inf") THEN NaN
  ELSE IF a.k = "inf" THEN Inf(a.neg # b.neg)
  ELSE Zero

\* floor(sqrt(n)) of a TLC integer, by Newton's iteration from above
RECURSIVE ISqrtFrom(_, _)
ISqrtFrom(n, x) ==
  LET y == (x + n \div x) \div 2 IN IF y >= x THEN x ELSE ISqrtFrom(n, y)
ISqrt(n) == IF n = 0 THEN 0 ELSE ISqrtFrom(n, 2^((LimbBits(n) + 1) \div 2))

\* floor(sqrt(m)) of a magnitude: Newton's iteration from a start x above the
\* root
RECURSIVE MSqrtFrom(_, _)
MSqrtFrom(m, x) ==
  Only({IF MCmp(y, x) >= 0 THEN x ELSE MSqrtFrom(m, y)
          : y \in {MShr(MAdd(x, MDivMod(m, x)[1]), 1)}})

MTopInt(m) == IF m = <<>> THEN 0 ELSE IF Len(m) = 1 THEN m[1] ELSE m[2] * Base + m[1]

\* the start is taken from the leading 30 bits, the e bits below them dropped
MSqrtShift(over) == IF over <= 0 THEN 0 ELSE over + (over % 2)
MSqrt(m) ==
  IF m = <<>> THEN <<>>
  ELSE Only({MSqrtFrom(m, MShl(MOfNat(ISqrt(MTopInt(MShr(m, e))) + 1), e \div 2))
               : e \in {MSqrtShift(MBits(m) - 30)}})

FSqrt(a) ==
  IF a.k = "fin" THEN
    IF a.mag = <<>> THEN Zero
    ELSE IF a.neg THEN NaN
    ELSE Only({Only({Fin(FALSE, MFormat(MAdd(MShl(r, 1),
                                             IF MMul(r, r) = n THEN <<>> ELSE <<1>>), 2))
                       : r \in {MSqrt(n)}})
                 : n \in {MShl(a.mag, FracBits + 2)}})
  ELSE IF a = PInf THEN PInf ELSE NaN

(* ----------------------------------------------------------------------- *)
(* The Math functions.  They work on magnitudes with 15 guard bits (units  *)
(* of 2^-75) and round the result to the quantum.                          *)
(* ----------------------------------------------------------------------- *)
GOne == <<0>> \o One
GuardBits == 15 * Len(GOne) - 15 - FracBits
GBits == FracBits + GuardBits

\* pi in units of 2^-75, and atan(k/8) for k = 1..8
MPi == <<6297, 12429, 4276, 23202, 4639, 3>>
MTwoPi == MShl(MPi, 1)
MHalfPi == MShr(MPi, 1)
MQuarterPi == MShr(MPi, 2)
AtanTab ==
  << <<13001, 30428, 21893, 28326, 4074>>,
     <<10972, 7084, 19232, 15100, 8027>>,
     <<20011, 15395, 29295, 6465, 11756>>,
     <<5568, 21466, 12509, 26373, 15192>>,
     <<23268, 23033, 24318, 5975, 18304>>,
     <<8397, 28818, 9886, 8006, 21086>>,
     <<7769, 6631, 30790, 20362, 23554>>,
     <<9766, 3107, 17453, 30376, 25735>> >>

\* floor(m * n / 2^75)
MMulG(m, n) ==
  Only({IF Len(p) < Len(GOne) THEN <<>> ELSE SubSeq(p, Len(GOne), Len(p))
          : p \in {MMul(m, n)}})

\* The Taylor series of sin (from t = x, k = 2) and of cos (from t = 1,
\* k = 1), the term t being added or subtracted in turn:
\* <<the sum of the terms added, the sum of the terms subtracted>>
RECURSIVE MSinCosSeries(_, _)
MSinCosSeries(st, x2) ==
  IF st.t = <<>> THEN <<st.pos, st.neg>>
  ELSE MSinCosSeries([t    |-> MDivLimb(MMulG(st.t, x2), st.k * (st.k + 1)),
                      k    |-> st.k + 2,
                      pos  |-> IF st.plus THEN MAdd(st.pos, st.t) ELSE st.pos,
                      neg  |-> IF st.plus THEN st.neg ELSE MAdd(st.neg, st.t),
                      plus |-> ~st.plus], x2)

\* sin r (wantSin) or cos r, for 0 <= r <= pi/4
MTrigReduced(r, wantSin) ==
  Only({MSub(pn[1], pn[2])
          : pn \in {MSinCosSeries([t    |-> IF wantSin THEN r ELSE GOne,
                                   k    |-> IF wantSin THEN 2 ELSE 1,
                                   pos  |-> <<>>, neg |-> <<>>, plus |-> TRUE],
                                  MMulG(r, r))}})

\* for 0 <= r <= pi/2: sin r = cos(pi/2 - r)
MTrigQ1(r, wantSin) ==
  Only({MTrigReduced(IF swap THEN MSub(MHalfPi, r) ELSE r, wantSin # swap)
          : swap \in {MCmp(r, MQuarterPi) > 0}})

\* <<negative, magnitude>> for 0 <= r <= pi: cos r = -cos(pi - r)
MTrigHalf(r, wantSin) ==
  Only({<<fold /\ ~wantSin, MTrigQ1(IF fold THEN MSub(MPi, r) ELSE r, wantSin)>>
          : fold \in {MCmp(r, MHalfPi) > 0}})

\* <<negative, magnitude>> for 0 <= r < 2 pi: sin r = -sin(2 pi - r)
MTrigFull(r, wantSin) ==
  Only({Only({<<IF back /\ wantSin THEN ~h[1] ELSE h[1], h[2]>>
                : h \in {MTrigHalf(IF back THEN MSub(MTwoPi, r) ELSE r, wantSin)}})
          : back \in {MCmp(r, MPi) > 0}})

\* Math.sin (wantSin) and Math.cos
FTrig(a, wantSin) ==
  IF a.k # "fin" THEN NaN
  ELSE Only({Fin(h[1] # (wantSin /\ a.neg), MFormat(h[2], GuardBits))
               : h \in {MTrigFull(MDivMod(MShl(a.mag, GuardBits), MTwoPi)[2], wantSin)}})

FSin(a) == FTrig(a, TRUE)
FCos(a) == FTrig(a, FALSE)

\* u - u^3/3 + u^5/5 - ... : <<terms added, terms subtracted>>
RECURSIVE MAtanSeries(_, _)
MAtanSeries(st, u2) ==
  IF st.pw = <<>> THEN <<st.pos, st.neg>>
  ELSE Only({MAtanSeries([pw   |-> MMulG(st.pw, u2),
                          k    |-> st.k + 2,
                          pos  |-> IF st.plus THEN MAdd(st.pos, t) ELSE st.pos,
                          neg  |-> IF st.plus THEN st.neg ELSE MAdd(st.neg, t),
                          plus |-> ~st.plus], u2)
               : t \in {MDivLimb(st.pw, st.k)}})

MAtanSmall(u) ==
  Only({MSub(pn[1], pn[2])
          : pn \in {MAtanSeries([pw |-> u, k |-> 1, pos |-> <<>>, neg |-> <<>>,
                                 plus |-> TRUE], MMulG(u, u))}})

\* atan t for 0 <= t <= 1 and c = k/8 the eighth nearest to t:
\* atan c + atan((t - c) / (1 + t c)), or the series alone when k = 0
MAtanNear(t, k, c) ==
  LET low == MCmp(t, c) < 0
  IN  Only({IF k = 0 THEN d
            ELSE IF low THEN MSub(AtanTab[k], d) ELSE MAdd(AtanTab[k], d)
              : d \in {MAtanSmall(
                         IF k = 0 THEN t
                         ELSE MDivMod(MShl(IF low THEN MSub(c, t) ELSE MSub(t, c), GBits),
                                      MAdd(GOne, MShr(MMulLimb(t, k), 3)))[1])}})

MAtanUnit(t) ==
  Only({MAtanNear(t, k, MShl(MOfNat(k), GBits - 3)) : k \in {MTopInt(MRound(t, GBits - 3))}})

\* atan(y / x) in [0, pi/2] for magnitudes y, x, not both zero
MAtan2Q1(y, x) ==
  LET low == MCmp(y, x) <= 0
  IN  Only({IF low THEN a ELSE MSub(MHalfPi, a)
              : a \in {MAtanUnit(MDivMod(MShl(IF low THEN y ELSE x, GBits),
                                         IF low THEN x ELSE y)[1])}})

MAngle(q, xneg) == IF xneg THEN MSub(MPi, q) ELSE q

\* |atan2(y, x)| for y, x not NaN and not both zero
MAtan2(y, x) ==
  IF y.k = "inf" THEN (IF x.k = "inf" THEN MAngle(MQuarterPi, x.neg) ELSE MHalfPi)
  ELSE IF x.k = "inf" THEN MAngle(<<>>, x.neg)
  ELSE MAngle(MAtan2Q1(y.mag, x.mag), x.neg)

\* Math.atan2 (there is no negative zero in this format: atan2(0, x) is 0 or pi)
FAtan2(y, x) ==
  IF y.k = "nan" \/ x.k = "nan" THEN NaN
  ELSE IF IsZero(y) /\ IsZero(x) THEN Zero
  ELSE Fin(y.neg, MFormat(MAtan2(y, x), GuardBits))

\* Math.acos: atan2(sqrt(1 - x^2), x), s and x the two magnitudes
FAcosOf(s, x, neg) ==
  IF s = <<>> /\ x = <<>> THEN NaN
  ELSE Fin(FALSE, MFormat(MAngle(MAtan2Q1(s, x), neg), GuardBits))

FAcos(a) ==
  IF a.k # "fin" \/ MCmp(a.mag, One) > 0 THEN NaN
  ELSE FAcosOf(MSqrt(MShl(MSub(MMul(One, One), MMul(a.mag, a.mag)), 2 * GuardBits)),
               MShl(a.mag, GuardBits), a.neg)

\* Math.pow(x, 2) and Math.pow(x, 3)
FPow2(a) == FMul(a, a)
FPow3(a) == FMul(FMul(a, a), a)

\* Math.PI
PI == Fin(FALSE, MFormat(MPi, GuardBits))

\* a decimal literal i + n / d, and a missing argument
Dec(i, n, d) == FAdd(Int2Num(i), FDiv(Int2Num(n), Int2Num(d)))
Undefined == [k |-> "undefined", neg |-> FALSE, mag |-> <<>>]

(* ----------------------------------------------------------------------- *)
(* core/constants.ts                                                       *)
(* ----------------------------------------------------------------------- *)
Flattening == FDiv(Int2Num(1), Dec(298, 257223563, 1000000000))

WGS84 ==
  [a  |-> Int2Num(6378137),
   f  |-> Flattening,
   b  |-> FMul(Int2Num(6378137), FSub(Int2Num(1), Flattening)),
   e2 |-> FSub(Int2Num(1), FPow2(FSub(Int2Num(1), Flattening)))]

MATH ==
  [DEG_TO_RAD |-> FDiv(PI, Int2Num(180)),
   RAD_TO_DEG |-> FDiv(Int2Num(180), PI)]

(* ----------------------------------------------------------------------- *)
(* core/ecef.ts                                                            *)
(* ----------------------------------------------------------------------- *)
ecefToGeodetic(x, y, z) ==
  Only({Only({Only({Only({
    [lat    |-> FMul(lat, MATH.RAD_TO_DEG),
     lon    |-> FMul(lon, MATH.RAD_TO_DEG),
     height |-> FSub(FDiv(p, FCos(lat)), N)]
    : N \in {FDiv(a, FSqrt(FSub(Int2Num(1), FMul(e2, FPow2(FSin(lat))))))}})
    : lat \in {FAtan2(FAdd(z, FMul(FMul(e2, b), FPow3(FSin(theta)))),
                      FSub(p, FMul(FMul(e2, a), FPow3(FCos(theta)))))},
      lon \in {FAtan2(y, x)}})
    : theta \in {FAtan2(FMul(z, a), FMul(p, b))}})
    : a \in {WGS84.a}, b \in {WGS84.b}, e2 \in {WGS84.e2},
      p \in {FSqrt(FAdd(FMul(x, x), FMul(y, y)))}})


\* geodeticToECEF without the default of height: undefined is NaN in a sum
geodeticToECEF_NoDefault(lat, lon, heightArg) ==
  Only({Only({
    [x |-> FMul(FMul(FAdd(N, height), FCos(latRad)), FCos(lonRad)),
     y |-> FMul(FMul(FAdd(N, height), FCos(latRad)), FSin(lonRad)),
     z |-> FMul(FAdd(FMul(N, FSub(Int2Num(1), e2)), height), FSin(latRad))]
    : N \in {FDiv(a, FSqrt(FSub(Int2Num(1), FMul(e2, FPow2(FSin(latRad))))))}})
    : height \in {IF heightArg = Undefined THEN NaN ELSE heightArg},
      a \in {WGS84.a}, e2 \in {WGS84.e2},
      latRad \in {FMul(lat, MATH.DEG_TO_RAD)},
      lonRad \in {FMul(lon, MATH.DEG_TO_RAD)}})
geodeticToECEF(lat, lon, heightArg) ==
  Only({Only({
    [x |-> FMul(FMul(FAdd(N, height), FCos(latRad)), FCos(lonRad)),
     y |-> FMul(FMul(FAdd(N, height), FCos(latRad)), FSin(lonRad)),
     z |-> FMul(FAdd(FMul(N, FSub(Int2Num(1), e2)), height), FSin(latRad))]
    : N \in {FDiv(a, FSqrt(FSub(Int2Num(1), FMul(e2, FPow2(FSin(latRad))))))}})
    : height \in {IF heightArg = Undefined THEN Zero ELSE heightArg},
      a \in {WGS84.a}, e2 \in {WGS84.e2},
      latRad \in {FMul(lat, MATH.DEG_TO_RAD)},
      lonRad \in {FMul(lon, MATH.DEG_TO_RAD)}})

\* ecefDistance without dz
ecefDistance_Planar(p1, p2) ==
  Only({FSqrt(FAdd(FMul(dx, dx), FMul(dy, dy)))
          : dx \in {FSub(p2.x, p1.x)}, dy \in {FSub(p2.y, p1.y)}})

\* ecefDistance without Math.sqrt
ecefDistance_Squared(p1, p2) ==
  Only({FAdd(FAdd(FMul(dx, dx), FMul(dy, dy)), FMul(dz, dz))
          : dx \in {FSub(p2.x, p1.x)}, dy \in {FSub(p2.y, p1.y)}, dz \in {FSub(p2.z, p1.z)}})

ecefDistance(p1, p2) ==
  Only({FSqrt(FAdd(FAdd(FMul(dx, dx), FMul(dy, dy)), FMul(dz, dz)))
          : dx \in {FSub(p2.x, p1.x)}, dy \in {FSub(p2.y, p1.y)}, dz \in {FSub(p2.z, p1.z)}})

\* what a call returns: a value, or the Error it throws
Return(v) == [threw |-> FALSE, value |-> v, message |-> ""]
Throw(msg) == [threw |-> TRUE, value |-> Undefined, message |-> msg]

\* points.reduce((acc, point) => ..., acc), from the i-th point on
RECURSIVE Reduce(_, _, _)
Reduce(points, i, acc) ==
  IF i > Len(points) THEN acc
  ELSE LET point == points[i]
       IN  Reduce(points, i + 1, [x |-> FAdd(acc.x, point.x),
                                  y |-> FAdd(acc.y, point.y),
                                  z |-> FAdd(acc.z, point.z)])

\* ecefCenter without the check of the length
ecefCenter_Unguarded(points) ==
  Only({Return([x |-> FDiv(sum.x, Int2Num(Len(points))),
                y |-> FDiv(sum.y, Int2Num(Len(points))),
                z |-> FDiv(sum.z, Int2Num(Len(points)))])
          : sum \in {Reduce(points, 1, [x |-> Zero, y |-> Zero, z |-> Zero])}})

\* ecefCenter with reduce called without the initial value: the sum starts
\* at points[0] and the callback runs from the second point on
ecefCenter_NoInitialValue(points) ==
  IF Len(points) = 0 THEN Throw("Cannot calculate center of empty array")
  ELSE Only({Return([x |-> FDiv(sum.x, Int2Num(Len(points))),
                     y |-> FDiv(sum.y, Int2Num(Len(points))),
                     z |-> FDiv(sum.z, Int2Num(Len(points)))])
               : sum \in {Reduce(points, 2, [x |-> Zero, y |-> Zero, z |-> Zero])}})

ecefCenter(points) ==
  IF Len(points) = 0 THEN Throw("Cannot calculate center of empty array")
  ELSE Only({Return([x |-> FDiv(sum.x, Int2Num(Len(points))),
                     y |-> FDiv(sum.y, Int2Num(Len(points))),
                     z |-> FDiv(sum.z, Int2Num(Len(points)))])
               : sum \in {Reduce(points, 1, [x |-> Zero, y |-> Zero, z |-> Zero])}})

(* ----------------------------------------------------------------------- *)
(* core/transform.ts                                                       *)
(* ----------------------------------------------------------------------- *)
Vec(x, y, z) == [x |-> x, y |-> y, z |-> z]
Quat(x, y, z, w) == [x |-> x, y |-> y, z |-> z, w |-> w]

ecefToLocal(ecef, center) ==
  Vec(FSub(ecef.x, center.x), FSub(ecef.y, center.y), FSub(ecef.z, center.z))

\* localToECEF subtracting the center instead of adding it
localToECEF_Subtracting(local, center) ==
  Vec(FSub(local.x, center.x), FSub(local.y, center.y), FSub(local.z, center.z))

localToECEF(local, center) ==
  Vec(FAdd(local.x, center.x), FAdd(local.y, center.y), FAdd(local.z, center.z))

\* the literal 0.00001
AxisEpsilon == Dec(0, 1, 100000)

\* createECEFToLocalRotation with !(axisLength >= 0.00001) for axisLength < 0.00001
createECEFToLocalRotation_NotAtLeast(center) ==
  Only({Only({Only({Only({Only({
    IF ~FLe(AxisEpsilon, axisLength) THEN Quat(Zero, Zero, Zero, Int2Num(1))
    ELSE Quat(FMul(FDiv(axisX, axisLength), s),
              FMul(axisY, s),
              FMul(FDiv(axisZ, axisLength), s),
              FCos(FDiv(angle, Int2Num(2))))
    : axisLength \in {FSqrt(FAdd(FMul(axisX, axisX), FMul(axisZ, axisZ)))}})
    : s \in {FSin(FDiv(angle, Int2Num(2)))},
      axisX \in {dirZ}, axisY \in {Zero}, axisZ \in {FNeg(dirX)}})
    : angle \in {FAcos(dirY)}})
    : dirX \in {FDiv(center.x, length)},
      dirY \in {FDiv(center.y, length)},
      dirZ \in {FDiv(center.z, length)}})
    : length \in {FSqrt(FAdd(FAdd(FMul(center.x, center.x), FMul(center.y, center.y)),
                             FMul(center.z, center.z)))}})

\* createECEFToLocalRotation without the test of the length of the axis
createECEFToLocalRotation_NoDegenerateCase(center) ==
  Only({Only({Only({Only({Only({
    IF FALSE THEN Quat(Zero, Zero, Zero, Int2Num(1))
    ELSE Quat(FMul(FDiv(axisX, axisLength), s),
              FMul(axisY, s),
              FMul(FDiv(axisZ, axisLength), s),
              FCos(FDiv(angle, Int2Num(2))))
    : axisLength \in {FSqrt(FAdd(FMul(axisX, axisX), FMul(axisZ, axisZ)))}})
    : s \in {FSin(FDiv(angle, Int2Num(2)))},
      axisX \in {dirZ}, axisY \in {Zero}, axisZ \in {FNeg(dirX)}})
    : angle \in {FAcos(dirY)}})
    : dirX \in {FDiv(center.x, length)},
      dirY \in {FDiv(center.y, length)},
      dirZ \in {FDiv(center.z, length)}})
    : length \in {FSqrt(FAdd(FAdd(FMul(center.x, center.x), FMul(center.y, center.y)),
                             FMul(center.z, center.z)))}})

createECEFToLocalRotation(center) ==
  Only({Only({Only({Only({Only({
    IF FLt(axisLength, AxisEpsilon) THEN Quat(Zero, Zero, Zero, Int2Num(1))
    ELSE Quat(FMul(FDiv(axisX, axisLength), s),
              FMul(axisY, s),
              FMul(FDiv(axisZ, axisLength), s),
              FCos(FDiv(angle, Int2Num(2))))
    : axisLength \in {FSqrt(FAdd(FMul(axisX, axisX), FMul(axisZ, axisZ)))}})
    : s \in {FSin(FDiv(angle, Int2Num(2)))},
      axisX \in {dirZ}, axisY \in {Zero}, axisZ \in {FNeg(dirX)}})
    : angle \in {FAcos(dirY)}})
    : dirX \in {FDiv(center.x, length)},
      dirY \in {FDiv(center.y, length)},
      dirZ \in {FDiv(center.z, length)}})
    : length \in {FSqrt(FAdd(FAdd(FMul(center.x, center.x), FMul(center.y, center.y)),
                             FMul(center.z, center.z)))}})

\* applyQuaternion computing q^-1 * p * q
applyQuaternion_Conjugated(point, quaternion) ==
  LET x  == point.x
      y  == point.y
      z  == point.z
      qx == FNeg(quaternion.x)
      qy == FNeg(quaternion.y)
      qz == FNeg(quaternion.z)
      qw == quaternion.w
  IN  Only({Vec(FSub(FAdd(FAdd(FMul(ix, qw), FMul(iw, FNeg(qx))), FMul(iy, FNeg(qz))),
                     FMul(iz, FNeg(qy))),
                FSub(FAdd(FAdd(FMul(iy, qw), FMul(iw, FNeg(qy))), FMul(iz, FNeg(qx))),
                     FMul(ix, FNeg(qz))),
                FSub(FAdd(FAdd(FMul(iz, qw), FMul(iw, FNeg(qz))), FMul(ix, FNeg(qy))),
                     FMul(iy, FNeg(qx))))
              : ix \in {FSub(FAdd(FMul(qw, x), FMul(qy, z)), FMul(qz, y))},
                iy \in {FSub(FAdd(FMul(qw, y), FMul(qz, x)), FMul(qx, z))},
                iz \in {FSub(FAdd(FMul(qw, z), FMul(qx, y)), FMul(qy, x))},
                iw \in {FSub(FSub(FMul(FNeg(qx), x), FMul(qy, y)), FMul(qz, z))}})

applyQuaternion(point, quaternion) ==
  LET x  == point.x
      y  == point.y
      z  == point.z
      qx == quaternion.x
      qy == quaternion.y
      qz == quaternion.z
      qw == quaternion.w
  IN  Only({Vec(FSub(FAdd(FAdd(FMul(ix, qw), FMul(iw, FNeg(qx))), FMul(iy, FNeg(qz))),
                     FMul(iz, FNeg(qy))),
                FSub(FAdd(FAdd(FMul(iy, qw), FMul(iw, FNeg(qy))), FMul(iz, FNeg(qx))),
                     FMul(ix, FNeg(qz))),
                FSub(FAdd(FAdd(FMul(iz, qw), FMul(iw, FNeg(qz))), FMul(ix, FNeg(qy))),
                     FMul(iy, FNeg(qx))))
              : ix \in {FSub(FAdd(FMul(qw, x), FMul(qy, z)), FMul(qz, y))},
                iy \in {FSub(FAdd(FMul(qw, y), FMul(qz, x)), FMul(qx, z))},
                iz \in {FSub(FAdd(FMul(qw, z), FMul(qx, y)), FMul(qy, x))},
                iw \in {FSub(FSub(FMul(FNeg(qx), x), FMul(qy, y)), FMul(qz, z))}})

createTransform(config) ==
  [center   |-> config.center,
   rotation |-> config.rotation,
   scale    |-> IF config.scale = Undefined THEN Int2Num(1) ELSE config.scale]

\* TransformFn with the rotation applied before the translation
TransformFn_RotateFirst(closure, ecef) ==
  Only({Only({
    IF closure.scale # Int2Num(1)
    THEN Vec(FMul(local.x, closure.scale), FMul(local.y, closure.scale),
             FMul(local.z, closure.scale))
    ELSE local
    : local \in {ecefToLocal(rotated, closure.center)}})
    : rotated \in {IF closure.rotation # Undefined
                   THEN applyQuaternion(ecef, closure.rotation) ELSE ecef}})

\* the function createTransform returns
TransformFn(closure, ecef) ==
  Only({Only({
    IF closure.scale # Int2Num(1)
    THEN Vec(FMul(rotated.x, closure.scale), FMul(rotated.y, closure.scale),
             FMul(rotated.z, closure.scale))
    ELSE rotated
    : rotated \in {IF closure.rotation # Undefined
                   THEN applyQuaternion(local, closure.rotation) ELSE local}})
    : local \in {ecefToLocal(ecef, closure.center)}})

\* Math.min and Math.max of two numbers
FMin(a, b) == IF a.k = "nan" \/ b.k = "nan" THEN NaN ELSE IF FLt(b, a) THEN b ELSE a
FMax(a, b) == IF a.k = "nan" \/ b.k = "nan" THEN NaN ELSE IF FLt(a, b) THEN b ELSE a

RECURSIVE BoundsLoop(_, _, _)
BoundsLoop(points, i, mm) ==
  IF i > Len(points) THEN mm
  ELSE LET point == points[i]
       IN  BoundsLoop(points, i + 1,
             [min |-> Vec(FMin(mm.min.x, point.x), FMin(mm.min.y, point.y),
                          FMin(mm.min.z, point.z)),
              max |-> Vec(FMax(mm.max.x, point.x), FMax(mm.max.y, point.y),
                          FMax(mm.max.z, point.z))])

\* calculateBounds returning undefined for an empty array instead of throwing
calculateBounds_Silent(points) ==
  IF Len(points) = 0 THEN Return(Undefined)
  ELSE Only({Return([min    |-> mm.min,
                     max    |-> mm.max,
                     center |-> Vec(FDiv(FAdd(mm.min.x, mm.max.x), Int2Num(2)),
                                    FDiv(FAdd(mm.min.y, mm.max.y), Int2Num(2)),
                                    FDiv(FAdd(mm.min.z, mm.max.z), Int2Num(2)))])
               : mm \in {BoundsLoop(points, 1, [min |-> points[1], max |-> points[1]])}})

\* calculateBounds with min and max starting at 0 instead of points[0]
calculateBounds_FromZero(points) ==
  IF Len(points) = 0 THEN Throw("Cannot calculate bounds of empty array")
  ELSE Only({Return([min    |-> mm.min,
                     max    |-> mm.max,
                     center |-> Vec(FDiv(FAdd(mm.min.x, mm.max.x), Int2Num(2)),
                                    FDiv(FAdd(mm.min.y, mm.max.y), Int2Num(2)),
                                    FDiv(FAdd(mm.min.z, mm.max.z), Int2Num(2)))])
               : mm \in {BoundsLoop(points, 1, [min |-> Vec(Zero, Zero, Zero),
                                                max |-> Vec(Zero, Zero, Zero)])}})

calculateBounds(points) ==
  IF Len(points) = 0 THEN Throw("Cannot calculate bounds of empty array")
  ELSE Only({Return([min    |-> mm.min,
                     max    |-> mm.max,
                     center |-> Vec(FDiv(FAdd(mm.min.x, mm.max.x), Int2Num(2)),
                                    FDiv(FAdd(mm.min.y, mm.max.y), Int2Num(2)),
                                    FDiv(FAdd(mm.min.z, mm.max.z), Int2Num(2)))])
               : mm \in {BoundsLoop(points, 1, [min |-> points[1], max |-> points[1]])}})

(* ----------------------------------------------------------------------- *)
(* three/TilesetTransform.ts: createTransformMatrix, with the THREE.Matrix4 *)
(* operations it calls.  A Matrix4 is its array of 16 elements, column     *)
(* after column.                                                           *)
(* ----------------------------------------------------------------------- *)
\* a number used as a condition
Truthy(n) == n # Undefined /\ n.k # "nan" /\ ~IsZero(n)

At(m, r, c) == m[4 * (c - 1) + r]

\* the matrix with the given rows
Matrix4Of(row1, row2, row3, row4) ==
  <<row1[1], row2[1], row3[1], row4[1], row1[2], row2[2], row3[2], row4[2],
    row1[3], row2[3], row3[3], row4[3], row1[4], row2[4], row3[4], row4[4]>>

Matrix4Identity ==
  Matrix4Of(<<Int2Num(1), Zero, Zero, Zero>>, <<Zero, Int2Num(1), Zero, Zero>>,
            <<Zero, Zero, Int2Num(1), Zero>>, <<Zero, Zero, Zero, Int2Num(1)>>)

makeTranslation(x, y, z) ==
  Matrix4Of(<<Int2Num(1), Zero, Zero, x>>, <<Zero, Int2Num(1), Zero, y>>,
            <<Zero, Zero, Int2Num(1), z>>, <<Zero, Zero, Zero, Int2Num(1)>>)

makeScale(x, y, z) ==
  Matrix4Of(<<x, Zero, Zero, Zero>>, <<Zero, y, Zero, Zero>>,
            <<Zero, Zero, z, Zero>>, <<Zero, Zero, Zero, Int2Num(1)>>)

makeRotationFromQuaternion(q) ==
  Only({Only({
    Matrix4Of(<<FSub(one, FAdd(yy, zz)), FSub(xy, wz), FAdd(xz, wy), Zero>>,
              <<FAdd(xy, wz), FSub(one, FAdd(xx, zz)), FSub(yz, wx), Zero>>,
              <<FSub(xz, wy), FAdd(yz, wx), FSub(one, FAdd(xx, yy)), Zero>>,
              <<Zero, Zero, Zero, one>>)
    : xx \in {FMul(q.x, x2)}, xy \in {FMul(q.x, y2)}, xz \in {FMul(q.x, z2)},
      yy \in {FMul(q.y, y2)}, yz \in {FMul(q.y, z2)}, zz \in {FMul(q.z, z2)},
      wx \in {FMul(q.w, x2)}, wy \in {FMul(q.w, y2)}, wz \in {FMul(q.w, z2)},
      one \in {Int2Num(1)}})
    : x2 \in {FAdd(q.x, q.x)}, y2 \in {FAdd(q.y, q.y)}, z2 \in {FAdd(q.z, q.z)}})

\* row r of a times column c of b
RowByColumn(a, b, r, c) ==
  FAdd(FAdd(FAdd(FMul(At(a, r, 1), At(b, 1, c)), FMul(At(a, r, 2), At(b, 2, c))),
            FMul(At(a, r, 3), At(b, 3, c))),
       FMul(At(a, r, 4), At(b, 4, c)))

\* this.multiply(m): this = this * m
Matrix4Multiply(a, b) ==
  Tup([i \in 1..16 |-> RowByColumn(a, b, ((i - 1) % 4) + 1, ((i - 1) \div 4) + 1)])

\* Vector3.applyMatrix4
applyMatrix4(v, e) ==
  Only({Vec(FMul(FAdd(FAdd(FAdd(FMul(e[1], v.x), FMul(e[5], v.y)), FMul(e[9], v.z)), e[13]), w),
            FMul(FAdd(FAdd(FAdd(FMul(e[2], v.x), FMul(e[6], v.y)), FMul(e[10], v.z)), e[14]), w),
            FMul(FAdd(FAdd(FAdd(FMul(e[3], v.x), FMul(e[7], v.y)), FMul(e[11], v.z)), e[15]), w))
          : w \in {FDiv(Int2Num(1), FAdd(FAdd(FAdd(FMul(e[4], v.x), FMul(e[8], v.y)),
                                             FMul(e[12], v.z)), e[16]))}})

createTransformMatrix(center, options) ==
  Only({Only({Only({
    IF Truthy(options.scale) /\ options.scale # Int2Num(1)
    THEN Matrix4Multiply(rotated, makeScale(options.scale, options.scale, options.scale))
    ELSE rotated
    : rotated \in {IF options.autoRotate
                   THEN Matrix4Multiply(matrix, makeRotationFromQuaternion(
                                                  createECEFToLocalRotation(center)))
                   ELSE matrix}})
    : matrix \in {Matrix4Multiply(Matrix4Identity, translation)}})
    : translation \in {makeTranslation(FNeg(center.x), FNeg(center.y), FNeg(center.z))}})

(* ----------------------------------------------------------------------- *)
(* three/TilesetTransform.ts: class TilesetTransform.  An object is the    *)
(* record of its fields: options, _center and _rotation, and the position, *)
(* quaternion and scale it inherits from THREE.Group.  An options object   *)
(* is a function on the keys the caller gave; a key it did not give reads  *)
(* as undefined.                                                           *)
(* ----------------------------------------------------------------------- *)
\* o.key
Prop(o, key) == IF key \in DOMAIN o THEN o[key] ELSE Undefined

\* a value used as a condition, where the value is an object or undefined
Present(v) == v # Undefined

\* an array, and its element of index i
Array(elements) == [length |-> Len(elements), at |-> elements]
Elem(array, i) == IF i < array.length THEN array.at[i + 1] ELSE Undefined

\* new THREE.Group(): the fields of a TilesetTransform after super()
Group ==
  [options    |-> <<>>,
   _center    |-> Undefined,
   _rotation  |-> Undefined,
   position   |-> Vec(Zero, Zero, Zero),
   quaternion |-> Quat(Zero, Zero, Zero, Int2Num(1)),
   scale      |-> Vec(Int2Num(1), Int2Num(1), Int2Num(1))]

\* Vector3.length
Vector3Length(v) == FSqrt(FAdd(FAdd(FMul(v.x, v.x), FMul(v.y, v.y)), FMul(v.z, v.z)))

\* the object after this.setCenter(center)
setCenter(self, center) ==
  Only({[self EXCEPT
           !._center    = center,
           !._rotation  = IF self.options.autoRotate THEN rotation ELSE @,
           !.quaternion = IF self.options.autoRotate THEN rotation ELSE @,
           !.position   = IF Present(Prop(self.options, "offset"))
                          THEN self.options.offset
                          ELSE Vec(Zero, FNeg(Vector3Length(center)), Zero),
           !.scale      = IF Truthy(self.options.scale) /\ self.options.scale # Int2Num(1)
                          THEN Vec(self.options.scale, self.options.scale, self.options.scale)
                          ELSE @]
          : rotation \in {IF self.options.autoRotate
                          THEN createECEFToLocalRotation(center) ELSE Undefined}})

\* new TilesetTransform(options)
TilesetTransform(options) ==
  Only({IF Present(Prop(options, "center")) THEN setCenter(self, options.center) ELSE self
          : self \in {[Group EXCEPT
                         !.options = options @@ [autoRotate |-> TRUE, scale |-> Int2Num(1)]]}})

getCenter(self) == Return(self._center)

getCenterGeodetic(self) ==
  IF ~Present(self._center) THEN Return(Undefined)
  ELSE Return(ecefToGeodetic(self._center.x, self._center.y, self._center.z))

\* transformPoint testing this._rotation where the code tests this._center
transformPoint_ChecksRotation(self, ecef) ==
  IF ~Present(self._rotation) THEN Throw("Center must be set before transforming points")
  ELSE Only({Only({
         Return(IF Truthy(self.options.scale)
                THEN Vec(FMul(rotated.x, self.options.scale),
                         FMul(rotated.y, self.options.scale),
                         FMul(rotated.z, self.options.scale))
                ELSE rotated)
         : rotated \in {IF Present(self._rotation)
                        THEN applyQuaternion(local, self._rotation) ELSE local}})
         : local \in {ecefToLocal(ecef, self._center)}})

transformPoint(self, ecef) ==
  IF ~Present(self._center) THEN Throw("Center must be set before transforming points")
  ELSE Only({Only({
         Return(IF Truthy(self.options.scale)
                THEN Vec(FMul(rotated.x, self.options.scale),
                         FMul(rotated.y, self.options.scale),
                         FMul(rotated.z, self.options.scale))
                ELSE rotated)
         : rotated \in {IF Present(self._rotation)
                        THEN applyQuaternion(local, self._rotation) ELSE local}})
         : local \in {ecefToLocal(ecef, self._center)}})

\* updateFromTilesRenderer reading the center as (center[1], center[0],
\* center[2])
updateFromTilesRenderer_Swapped(self, tilesRenderer) ==
  IF Present(Prop(tilesRenderer, "root"))
     /\ Present(Prop(tilesRenderer.root, "boundingVolume"))
     /\ Present(Prop(tilesRenderer.root.boundingVolume, "center"))
  THEN Only({setCenter(self, Vec(Elem(center, 1), Elem(center, 0), Elem(center, 2)))
               : center \in {tilesRenderer.root.boundingVolume.center}})
  ELSE self

\* the object after this.updateFromTilesRenderer(tilesRenderer)
updateFromTilesRenderer(self, tilesRenderer) ==
  IF Present(Prop(tilesRenderer, "root"))
     /\ Present(Prop(tilesRenderer.root, "boundingVolume"))
     /\ Present(Prop(tilesRenderer.root.boundingVolume, "center"))
  THEN Only({setCenter(self, Vec(Elem(center, 0), Elem(center, 1), Elem(center, 2)))
               : center \in {tilesRenderer.root.boundingVolume.center}})
  ELSE self

(* ----------------------------------------------------------------------- *)
(* The caller.  The library is a set of pure functions, so the state is    *)
(* the latest call (fn, args, ret) and the calls before it in the same     *)
(* chain (hist): a call takes fresh arguments, or the value the previous   *)
(* call returned, as a round trip does.  A TilesetTransform has fields     *)
(* that its methods change: this is the object, undefined until it is      *)
(* constructed.                                                            *)
(* ----------------------------------------------------------------------- *)
VARIABLES fn, args, ret, hist, this, heap
vars == <<fn, args, ret, hist, this, heap>>

\* bounds of the model
MaxChain == 2
MaxCoord == 1
MaxPoints == 3

Coords == (0 - MaxCoord)..MaxCoord
IntVec(i, j, k) == Vec(Int2Num(i), Int2Num(j), Int2Num(k))
GridPoints == {IntVec(i, j, k) : i \in Coords, j \in Coords, k \in Coords}
Origin == IntVec(0, 0, 0)

\* the coordinates used by the tests and the README
Tokyo == Vec(Dec(-3959768, -229, 1000), Dec(3352818, 505, 1000), Dec(3697478, 773, 1000))
TokyoCenter == IntVec(-3950000, 3360000, 3700000)
EquatorPoint == IntVec(6378137, 0, 0)
NorthPole == Vec(Zero, Zero, Dec(6356752, 314, 1000))
NearCentre == IntVec(1000, 0, 0)
Tenths == Vec(Dec(0, 1, 10), Dec(0, 2, 10), Dec(0, 3, 10))
EarthPoints == {Tokyo, TokyoCenter, EquatorPoint, NorthPole, NearCentre, Tenths}

Geo(lat, lon, height) == [lat |-> lat, lon |-> lon, height |-> height]
TokyoGeo == Geo(Dec(35, 6762, 10000), Dec(139, 6503, 10000), Int2Num(40))
GeoInputs ==
  {Geo(Int2Num(30 * i), Int2Num(90 * j), h) :
     i \in (0 - MaxCoord - 1)..(MaxCoord + 1), j \in Coords, h \in {Zero, Int2Num(100)}}
  \cup {TokyoGeo, Geo(TokyoGeo.lat, TokyoGeo.lon, Int2Num(100)),
        Geo(Zero, Zero, Undefined), Geo(Zero, Int2Num(200), Zero),
        Geo(Int2Num(90), Zero, Zero),
        Geo(Int2Num(45), Int2Num(10), Int2Num(-7000000))}

EcefInputs == GridPoints \cup EarthPoints

LocalPoints == EarthPoints \cup {Origin, IntVec(1, 0, 0), IntVec(3, 4, 0)}
\* Number.MIN_VALUE, the smallest positive number: one quantum
MinValue == Fin(FALSE, <<1>>)
DistancePoints ==
  LocalPoints \cup {IntVec(1, 1, 0), IntVec(4, 4, 0), Vec(MinValue, Zero, Zero)}
Centers == {Origin, IntVec(1, 0, 0), TokyoCenter, EquatorPoint}

RotationCenters ==
  GridPoints \cup {Tokyo, TokyoCenter, EquatorPoint, IntVec(-6378137, 0, 0),
                   IntVec(0, 0, 6356752), IntVec(0, 6378137, 0), IntVec(0, -6378137, 0),
                   IntVec(1, 1000000, 0), IntVec(1, 10000, 0), Vec(MinValue, Zero, Zero)}

ArrayPoints == {Origin, IntVec(10, 10, 10), IntVec(20, 20, 20), IntVec(20, 0, -10), Tenths}
RECURSIVE SeqsUpTo(_, _)
SeqsUpTo(S, n) ==
  IF n = 0 THEN {<<>>}
  ELSE LET shorter == SeqsUpTo(S, n - 1)
       IN  shorter \cup {Append(q, e) : q \in {t \in shorter : Len(t) = n - 1}, e \in S}
PointArrays == SeqsUpTo(ArrayPoints, MaxPoints)

\* sin(pi/4), for the quarter turns
Half == Dec(0, 1, 2)
RootHalf == FSqrt(Half)
QuaternionInputs ==
  {Quat(Zero, Zero, Zero, Int2Num(1)), Quat(Int2Num(1), Zero, Zero, Zero),
   Quat(Zero, Int2Num(1), Zero, Zero), Quat(Zero, Zero, Int2Num(1), Zero),
   Quat(Zero, Zero, Zero, Int2Num(-1)), Quat(Int2Num(-1), Zero, Zero, Zero),
   Quat(Zero, Int2Num(-1), Zero, Zero), Quat(Zero, Zero, Int2Num(-1), Zero),
   Quat(Zero, Zero, RootHalf, RootHalf), Quat(RootHalf, Zero, Zero, RootHalf)}

TransformCenters == {IntVec(1, 0, 0), TokyoCenter, IntVec(0, 0, 6356752)}
ScaleInputs == {Undefined, Int2Num(1), Int2Num(2), Zero, Half}
TransformPoints == {Origin, IntVec(3, 0, 0), IntVec(1, 2, 3), Tokyo}
RotationInputs(center) ==
  {Undefined, Quat(Zero, Zero, RootHalf, RootHalf), createECEFToLocalRotation(center)}

Init ==
  /\ fn = "none"
  /\ args = <<>>
  /\ ret = Return(Undefined)
  /\ hist = <<>>
  /\ this = Undefined
  /\ heap = <<>>

Fresh == fn = "none"
After(f) == fn = f /\ ~ret.threw /\ Len(hist) + 1 < MaxChain

Call(f, a, r) ==
  /\ fn' = f
  /\ args' = a
  /\ ret' = r
  /\ hist' = IF fn = "none" THEN hist
             ELSE Append(hist, [fn |-> fn, args |-> args, ret |-> ret])
  /\ this' = this
  /\ heap' = heap

GeodeticToECEF ==
  \/ /\ Fresh
     /\ \E g \in GeoInputs :
          Call("geodeticToECEF", g, Return(geodeticToECEF(g.lat, g.lon, g.height)))
  \/ /\ After("ecefToGeodetic")
     /\ Call("geodeticToECEF", ret.value,
             Return(geodeticToECEF(ret.value.lat, ret.value.lon, ret.value.height)))

EcefToGeodetic ==
  \/ /\ Fresh
     /\ \E e \in EcefInputs :
          Call("ecefToGeodetic", e, Return(ecefToGeodetic(e.x, e.y, e.z)))
  \/ /\ After("geodeticToECEF")
     /\ Call("ecefToGeodetic", ret.value,
             Return(ecefToGeodetic(ret.value.x, ret.value.y, ret.value.z)))

EcefDistance ==
  /\ Fresh
  /\ \E p1 \in DistancePoints, p2 \in DistancePoints :
       Call("ecefDistance", [p1 |-> p1, p2 |-> p2], Return(ecefDistance(p1, p2)))

EcefCenter ==
  /\ Fresh
  /\ \E points \in PointArrays : Call("ecefCenter", points, ecefCenter(points))

CalculateBounds ==
  /\ Fresh
  /\ \E points \in PointArrays : Call("calculateBounds", points, calculateBounds(points))

EcefToLocal ==
  \/ /\ Fresh
     /\ \E e \in LocalPoints, c \in Centers :
          Call("ecefToLocal", [point |-> e, center |-> c], Return(ecefToLocal(e, c)))
  \/ /\ After("localToECEF")
     /\ Call("ecefToLocal", [point |-> ret.value, center |-> args.center],
             Return(ecefToLocal(ret.value, args.center)))

LocalToECEF ==
  \/ /\ Fresh
     /\ \E q \in LocalPoints, c \in Centers :
          Call("localToECEF", [point |-> q, center |-> c], Return(localToECEF(q, c)))
  \/ /\ After("ecefToLocal")
     /\ Call("localToECEF", [point |-> ret.value, center |-> args.center],
             Return(localToECEF(ret.value, args.center)))

\* center / |center|, the direction the rotation is derived from
Normalize(v) ==
  Only({Vec(FDiv(v.x, length), FDiv(v.y, length), FDiv(v.z, length))
          : length \in {FSqrt(FAdd(FAdd(FMul(v.x, v.x), FMul(v.y, v.y)), FMul(v.z, v.z)))}})

CreateECEFToLocalRotation ==
  /\ Fresh
  /\ \E c \in RotationCenters :
       Call("createECEFToLocalRotation", c, Return(createECEFToLocalRotation(c)))

ApplyQuaternion ==
  \/ /\ Fresh
     /\ \E v \in TransformPoints, q \in QuaternionInputs :
          Call("applyQuaternion", [point |-> v, quaternion |-> q],
               Return(applyQuaternion(v, q)))
  \/ /\ After("createECEFToLocalRotation")
     /\ \E v \in {Normalize(args)} :
          Call("applyQuaternion", [point |-> v, quaternion |-> ret.value],
               Return(applyQuaternion(v, ret.value)))

CreateTransform ==
  /\ Fresh
  /\ \E c \in TransformCenters, s \in ScaleInputs :
       \E r \in RotationInputs(c) :
          LET config == [center |-> c, rotation |-> r, scale |-> s]
          IN  Call("createTransform", config, Return(createTransform(config)))

\* a call of the function createTransform returned
Transform ==
  /\ After("createTransform")
  /\ \E v \in TransformPoints : Call("transform", v, Return(TransformFn(ret.value, v)))

CreateTransformMatrix ==
  /\ Fresh
  /\ \E c \in TransformCenters, s \in ScaleInputs, auto \in BOOLEAN :
       LET options == [autoRotate |-> auto, scale |-> s]
       IN  Call("createTransformMatrix", [center |-> c, options |-> options],
                Return(createTransformMatrix(c, options)))

\* the matrix createTransformMatrix returned, applied to a point
ApplyMatrix4 ==
  /\ After("createTransformMatrix")
  /\ \E v \in TransformPoints : Call("applyMatrix4", v, Return(applyMatrix4(v, ret.value)))

Next ==
  \/ GeodeticToECEF
  \/ EcefToGeodetic
  \/ EcefDistance
  \/ EcefCenter
  \/ CalculateBounds
  \/ EcefToLocal
  \/ LocalToECEF
  \/ CreateECEFToLocalRotation
  \/ ApplyQuaternion
  \/ CreateTransform
  \/ Transform
  \/ CreateTransformMatrix
  \/ ApplyMatrix4

Spec == Init /\ [][Next]_vars

(* ----------------------------------------------------------------------- *)
(* The owner of a TilesetTransform: it constructs the object and then      *)
(* calls its methods, up to MaxOps of them.                                *)
(* ----------------------------------------------------------------------- *)
MaxOps == 2

\* the options a caller may give, each key given or not
AllOptions ==
  [center |-> TokyoCenter, autoRotate |-> FALSE, scale |-> Int2Num(2), offset |-> Origin]
TilesetOptions ==
  {[key \in given |-> AllOptions[key]] : given \in SUBSET (DOMAIN AllOptions)}
    \cup {[scale |-> Zero], [autoRotate |-> FALSE, scale |-> Zero]}

\* an object without properties
NoProps == [key \in {} |-> Undefined]

\* tile sets without a root, without a bounding volume, with a box and with a
\* bounding sphere
TilesRenderers ==
  {NoProps,
   [root |-> NoProps],
   [root |-> [boundingVolume |-> [box |-> Array(<<Zero, Zero, Zero>>)]]],
   [root |-> [boundingVolume |-> [center |-> Array(<<Zero, Int2Num(3), Int2Num(4)>>)]]]}

Constructed == this # Undefined /\ Len(hist) < MaxOps

\* a call that leaves the object as self
Invoke(f, a, r, self) ==
  /\ fn' = f
  /\ args' = a
  /\ ret' = r
  /\ hist' = IF fn = "none" THEN hist
             ELSE Append(hist, [fn |-> fn, args |-> args, ret |-> ret, this |-> this])
  /\ this' = self
  /\ heap' = heap

Construct ==
  /\ Fresh
  /\ \E options \in TilesetOptions :
       Invoke("constructor", options, Return(Undefined), TilesetTransform(options))

SetCenter ==
  /\ Constructed
  /\ \E center \in {IntVec(1, 0, 0)} :
       Invoke("setCenter", center, Return(Undefined), setCenter(this, center))

UpdateFromTilesRenderer ==
  /\ Constructed
  /\ \E tilesRenderer \in TilesRenderers :
       Invoke("updateFromTilesRenderer", tilesRenderer, Return(Undefined),
              updateFromTilesRenderer(this, tilesRenderer))

TransformPoint ==
  /\ Constructed
  /\ \E ecef \in {IntVec(1, 2, 3)} :
       Invoke("transformPoint", ecef, transformPoint(this, ecef), this)

GetCenter ==
  /\ Constructed
  /\ Invoke("getCenter", <<>>, getCenter(this), this)

GetCenterGeodetic ==
  /\ Constructed
  /\ Invoke("getCenterGeodetic", <<>>, getCenterGeodetic(this), this)

TilesetNext ==
  \/ Construct
  \/ SetCenter
  \/ UpdateFromTilesRenderer
  \/ TransformPoint
  \/ GetCenter
  \/ GetCenterGeodetic

TilesetSpec == Init /\ [][TilesetNext]_vars

(* ----------------------------------------------------------------------- *)
(* Objects.  The heap is the sequence of the objects allocated so far, an  *)
(* object's address is its index, and a property that holds an object      *)
(* holds a reference to it.  The functions of core/ are given here as they *)
(* read and write the heap, so that aliasing between what a caller passes  *)
(* in, what a function keeps and what it returns is visible.               *)
(* ----------------------------------------------------------------------- *)
Ref(address) == [ref |-> address]
IsRef(v) == DOMAIN v = {"ref"}
New(h) == Ref(Len(h) + 1)
Deref(h, v) == IF IsRef(v) THEN h[v.ref] ELSE v
\* the values of the points of an array
DerefArray(h, points) == [i \in 1..h[points.ref].length |-> h[h[points.ref].at[i].ref]]
\* what a function leaves behind: the heap and the value returned or thrown
Outcome(h, r) == [heap |-> h, ret |-> r]

\* ecef.ts, ecefCenter: reduce reads the points, the mean is a new object
HeapEcefCenter(h, points) ==
  Only({IF r.threw THEN Outcome(h, r) ELSE Outcome(Append(h, r.value), Return(New(h)))
          : r \in {ecefCenter(DerefArray(h, points))}})

\* transform.ts, ecefToLocal, localToECEF and applyQuaternion: a new object
HeapEcefToLocal(h, ecef, center) ==
  Outcome(Append(h, ecefToLocal(h[ecef.ref], h[center.ref])), Return(New(h)))
HeapLocalToECEF(h, local, center) ==
  Outcome(Append(h, localToECEF(h[local.ref], h[center.ref])), Return(New(h)))
HeapApplyQuaternion(h, point, quaternion) ==
  Outcome(Append(h, applyQuaternion(h[point.ref], h[quaternion.ref])), Return(New(h)))

\* transform.ts, createTransform: const { center, rotation, scale = 1 } =
\* config; the function returned keeps these three values, two of them
\* references to the caller's objects
HeapCreateTransform(h, config) ==
  Outcome(Append(h, [center   |-> h[config.ref].center,
                     rotation |-> h[config.ref].rotation,
                     scale    |-> IF h[config.ref].scale = Undefined THEN Int2Num(1)
                                  ELSE h[config.ref].scale]),
          Return(New(h)))

\* the function returned by createTransform, called: it reads the objects
\* its references point to now
HeapTransformFn(h, closure, ecef) ==
  Outcome(Append(h, TransformFn([center   |-> Deref(h, h[closure.ref].center),
                                 rotation |-> Deref(h, h[closure.ref].rotation),
                                 scale    |-> h[closure.ref].scale],
                                h[ecef.ref])),
          Return(New(h)))

\* transform.ts, calculateBounds: the loop assigns to min and max
RECURSIVE HeapBoundsLoop(_, _, _, _, _)
HeapBoundsLoop(h, points, i, min, max) ==
  IF i > Len(points) THEN h
  ELSE Only({HeapBoundsLoop(
               [h2 EXCEPT ![max.ref] = Vec(FMax(h2[max.ref].x, h2[points[i].ref].x),
                                           FMax(h2[max.ref].y, h2[points[i].ref].y),
                                           FMax(h2[max.ref].z, h2[points[i].ref].z))],
               points, i + 1, min, max)
               : h2 \in {[h EXCEPT ![min.ref] = Vec(FMin(h[min.ref].x, h[points[i].ref].x),
                                                    FMin(h[min.ref].y, h[points[i].ref].y),
                                                    FMin(h[min.ref].z, h[points[i].ref].z))]}})

\* the bounds returned, after the loop: min, max and a new center
BoundsOf(h, min, max) ==
  Outcome(Append(h, Vec(FDiv(FAdd(h[min.ref].x, h[max.ref].x), Int2Num(2)),
                        FDiv(FAdd(h[min.ref].y, h[max.ref].y), Int2Num(2)),
                        FDiv(FAdd(h[min.ref].z, h[max.ref].z), Int2Num(2)))),
          Return([min |-> min, max |-> max, center |-> New(h)]))

\* calculateBounds with const min = points[0]; const max = points[0];
HeapCalculateBounds_Aliased(h, points) ==
  IF h[points.ref].length = 0 THEN Outcome(h, Throw("Cannot calculate bounds of empty array"))
  ELSE Only({BoundsOf(HeapBoundsLoop(h, h[points.ref].at, 1, first, first), first, first)
               : first \in {h[points.ref].at[1]}})

\* const min = { ...points[0] }; const max = { ...points[0] };
HeapCalculateBounds(h, points) ==
  IF h[points.ref].length = 0 THEN Outcome(h, Throw("Cannot calculate bounds of empty array"))
  ELSE Only({BoundsOf(HeapBoundsLoop(Append(Append(h, first), first), h[points.ref].at, 1,
                                     New(h), New(Append(h, first))),
                      New(h), New(Append(h, first)))
               : first \in {h[h[points.ref].at[1].ref]}})

(* ----------------------------------------------------------------------- *)
(* A caller with objects of its own: it builds a config, points and an     *)
(* array, and then calls the functions of core/ and assigns to its         *)
(* objects in any order, up to MaxSteps times.                             *)
(* ----------------------------------------------------------------------- *)
MaxSteps == 3

QuarterTurnZ == Quat(Zero, Zero, RootHalf, RootHalf)
\* the caller's objects: the center, the rotation, the config, two points
\* and the array of the two points
CallerHeap(rotation, scale) ==
  <<IntVec(1, 0, 0), QuarterTurnZ,
    [center |-> Ref(1), rotation |-> rotation, scale |-> scale],
    IntVec(10, 10, 10), IntVec(20, 0, -10), Array(<<Ref(4), Ref(5)>>)>>
CallerRoots == [config |-> Ref(3), quaternion |-> Ref(2), points |-> Ref(6)]

Roots == IF fn = "setup" THEN ret.value ELSE hist[1].ret.value
Ready == fn # "none" /\ Len(hist) < MaxSteps
\* the values returned so far by the calls of f
Returned(f) ==
  {hist[i].ret.value : i \in {j \in 1..Len(hist) : hist[j].fn = f /\ ~hist[j].ret.threw}}
  \cup (IF fn = f /\ ~ret.threw THEN {ret.value} ELSE {})

\* a step of the caller that leaves the heap as out.heap
Step(f, a, out) ==
  /\ fn' = f
  /\ args' = a
  /\ ret' = out.ret
  /\ hist' = IF fn = "none" THEN hist
             ELSE Append(hist, [fn |-> fn, args |-> args, ret |-> ret, heap |-> heap])
  /\ heap' = out.heap
  /\ this' = this

Setup ==
  /\ Fresh
  /\ \E rotation \in {Undefined, Ref(2)}, scale \in {Undefined, Int2Num(2)} :
       Step("setup", <<>>, Outcome(CallerHeap(rotation, scale), Return(CallerRoots)))

HeapCreateTransformCall ==
  /\ Ready /\ Returned("createTransform") = {}
  /\ Step("createTransform", [config |-> Roots.config],
          HeapCreateTransform(heap, Roots.config))

HeapTransformCall ==
  /\ Ready
  /\ \E closure \in Returned("createTransform"), ecef \in {heap[Roots.points.ref].at[1]} :
       Step("transform", [closure |-> closure, ecef |-> ecef],
            HeapTransformFn(heap, closure, ecef))

\* config.center.x = 5 and config.rotation.w = 0
AssignCenterX ==
  /\ Ready
  /\ Step("config.center.x =", Int2Num(5),
          Outcome([heap EXCEPT ![heap[Roots.config.ref].center.ref].x = Int2Num(5)],
                  Return(Undefined)))
AssignRotationW ==
  /\ Ready /\ IsRef(heap[Roots.config.ref].rotation)
  /\ Step("config.rotation.w =", Zero,
          Outcome([heap EXCEPT ![heap[Roots.config.ref].rotation.ref].w = Zero],
                  Return(Undefined)))

\* config.center = { x: 0, y: 2, z: 0 }, config.rotation = undefined and
\* config.scale = 3
AssignCenter ==
  /\ Ready
  /\ Step("config.center =", IntVec(0, 2, 0),
          Outcome([Append(heap, IntVec(0, 2, 0)) EXCEPT ![Roots.config.ref].center = New(heap)],
                  Return(Undefined)))
AssignRotation ==
  /\ Ready
  /\ Step("config.rotation =", Undefined,
          Outcome([heap EXCEPT ![Roots.config.ref].rotation = Undefined], Return(Undefined)))
AssignScale ==
  /\ Ready
  /\ Step("config.scale =", Int2Num(3),
          Outcome([heap EXCEPT ![Roots.config.ref].scale = Int2Num(3)], Return(Undefined)))

HeapEcefCenterCall ==
  /\ Ready
  /\ Step("ecefCenter", [points |-> Roots.points], HeapEcefCenter(heap, Roots.points))
HeapCalculateBoundsCall ==
  /\ Ready
  /\ Step("calculateBounds", [points |-> Roots.points],
          HeapCalculateBounds(heap, Roots.points))
HeapEcefToLocalCall ==
  /\ Ready
  /\ \E ecef \in {heap[Roots.points.ref].at[1]}, center \in {heap[Roots.points.ref].at[2]} :
       Step("ecefToLocal", [ecef |-> ecef, center |-> center],
            HeapEcefToLocal(heap, ecef, center))
HeapLocalToECEFCall ==
  /\ Ready
  /\ \E local \in {heap[Roots.points.ref].at[1]}, center \in {heap[Roots.points.ref].at[2]} :
       Step("localToECEF", [local |-> local, center |-> center],
            HeapLocalToECEF(heap, local, center))
HeapApplyQuaternionCall ==
  /\ Ready
  /\ \E point \in {heap[Roots.points.ref].at[1]} :
       Step("applyQuaternion", [point |-> point, quaternion |-> Roots.quaternion],
            HeapApplyQuaternion(heap, point, Roots.quaternion))

\* bounds.min.x = -1 and bounds.max.x = 99, on bounds returned before
AssignBoundsX ==
  /\ Ready
  /\ \E bounds \in Returned("calculateBounds") :
       Step("bounds.min.x = bounds.max.x =", bounds,
            Outcome([heap EXCEPT ![bounds.min.ref].x = Int2Num(-1),
                                 ![bounds.max.ref].x = Int2Num(99)],
                    Return(Undefined)))

HeapNext ==
  \/ Setup
  \/ HeapCreateTransformCall
  \/ HeapTransformCall
  \/ AssignCenterX
  \/ AssignRotationW
  \/ AssignCenter
  \/ AssignRotation
  \/ AssignScale
  \/ HeapEcefCenterCall
  \/ HeapCalculateBoundsCall
  \/ HeapEcefToLocalCall
  \/ HeapLocalToECEFCall
  \/ HeapApplyQuaternionCall
  \/ AssignBoundsX

HeapSpec == Init /\ [][HeapNext]_vars

(* ----------------------------------------------------------------------- *)
(* three/CesiumRTCPlugin.ts.  The scene, the list of the calls the         *)
(* onCenterFound callback has received and the center array of the parsed  *)
(* asset are objects of the heap; the plugin is this.                      *)
(* ----------------------------------------------------------------------- *)
Null == [k |-> "null", neg |-> FALSE, mag |-> <<>>]
\* v == null, which holds of null and of undefined
Nullish(v) == v = Null \/ v = Undefined
\* o?.key
OptProp(o, key) == IF Nullish(o) THEN Undefined ELSE Prop(o, key)

\* onCenterFound as the caller wrote it: it notes the center it is given and
\* the scene as it is at that moment, and then returns or throws
CallbackReturns == [callback |-> "returns"]
CallbackThrows == [callback |-> "throws"]
InvokeCallback(h, callback, log, center, scene) ==
  Outcome([h EXCEPT ![log.ref] = Array(Append(@.at, [center |-> center, scene |-> h[scene.ref]]))],
          IF callback = CallbackThrows THEN Throw("onCenterFound failed")
          ELSE Return(Undefined))

CesiumRTCPlugin(parser, onCenterFound) ==
  [name |-> "CESIUM_RTC", parser |-> parser, centerCallback |-> onCenterFound]

\* afterRoot writing userData.cesiumRTC before it calls the callback
afterRoot_StoresFirst(self, h, result, log) ==
  Only({IF ~Nullish(center)
        THEN Only({Only({
               IF Present(self.centerCallback)
               THEN Only({IF called.ret.threw THEN called ELSE Outcome(called.heap, Return(Null))
                            : called \in {InvokeCallback(stored, self.centerCallback, log,
                                                         center, scene)}})
               ELSE Outcome(stored, Return(Null))
               : stored \in {[placed EXCEPT ![scene.ref].userData =
                                [cesiumRTC |-> [center |-> center]] @@ @]}})
               : scene \in {result.scene},
                 placed \in {[h EXCEPT ![result.scene.ref].position =
                                Vec(Elem(h[center.ref], 0), Elem(h[center.ref], 1),
                                    Elem(h[center.ref], 2))]}})
        ELSE Outcome(h, Return(Null))
          : center \in {OptProp(OptProp(OptProp(Prop(self.parser, "json"), "extensions"),
                                        "CESIUM_RTC"), "center")}})

\* afterRoot(result); log is where the caller's callback keeps its notes
afterRoot(self, h, result, log) ==
  Only({IF ~Nullish(center)
        THEN Only({Only({
               IF called.ret.threw THEN called
               ELSE Outcome([called.heap EXCEPT ![scene.ref].userData =
                               [cesiumRTC |-> [center |-> center]] @@ @],
                            Return(Null))
               : called \in {IF Present(self.centerCallback)
                             THEN InvokeCallback(placed, self.centerCallback, log, center, scene)
                             ELSE Outcome(placed, Return(Undefined))}})
               : scene \in {result.scene},
                 placed \in {[h EXCEPT ![result.scene.ref].position =
                                Vec(Elem(h[center.ref], 0), Elem(h[center.ref], 1),
                                    Elem(h[center.ref], 2))]}})
        ELSE Outcome(h, Return(Null))
          : center \in {OptProp(OptProp(OptProp(Prop(self.parser, "json"), "extensions"),
                                        "CESIUM_RTC"), "center")}})

\* getRTCCenter answering for every asset that has the extension
getRTCCenter_OfExtension(self) ==
  Only({IF ~Nullish(extension) THEN Return(Prop(extension, "center")) ELSE Return(Null)
          : extension \in {OptProp(OptProp(Prop(self.parser, "json"), "extensions"),
                                   "CESIUM_RTC")}})

getRTCCenter(self) ==
  Only({IF ~Nullish(center) THEN Return(center) ELSE Return(Null)
          : center \in {OptProp(OptProp(OptProp(Prop(self.parser, "json"), "extensions"),
                                        "CESIUM_RTC"), "center")}})

(* ----------------------------------------------------------------------- *)
(* A loader with the plugin: it registers the plugin for a parsed asset    *)
(* and then runs afterRoot for the scene, and asks for the center, up to   *)
(* MaxLoads times.                                                         *)
(* ----------------------------------------------------------------------- *)
MaxLoads == 2

\* the scene as loaded, the notes of the callback, the center array
LoaderHeap(scene) == <<scene, Array(<<>>), Array(<<Int2Num(1), Int2Num(2), Int2Num(3)>>)>>
LoaderRoots == [scene |-> Ref(1), log |-> Ref(2), center |-> Ref(3)]
Scenes ==
  {[position |-> Origin, userData |-> NoProps],
   [position |-> IntVec(7, 8, 9), userData |-> [name |-> "tile"]]}
\* parsed assets: without json, without extensions, without CESIUM_RTC,
\* without center, with center null and with a center
Parsers ==
  {NoProps, [json |-> NoProps], [json |-> [extensions |-> NoProps]],
   [json |-> [extensions |-> [CESIUM_RTC |-> NoProps]]],
   [json |-> [extensions |-> [CESIUM_RTC |-> [center |-> Null]]]],
   [json |-> [extensions |-> [CESIUM_RTC |-> [center |-> LoaderRoots.center]]]]}
Callbacks == {Undefined, CallbackReturns, CallbackThrows}

Registered == this # Undefined /\ Len(hist) < MaxLoads

\* a step of the loader that leaves the plugin as self
Load(f, a, out, self) ==
  /\ fn' = f
  /\ args' = a
  /\ ret' = out.ret
  /\ hist' = IF fn = "none" THEN hist
             ELSE Append(hist, [fn |-> fn, args |-> args, ret |-> ret, heap |-> heap])
  /\ heap' = out.heap
  /\ this' = self

Register ==
  /\ Fresh
  /\ \E parser \in Parsers, onCenterFound \in Callbacks, scene \in Scenes :
       Load("constructor", [parser |-> parser, onCenterFound |-> onCenterFound],
            Outcome(LoaderHeap(scene), Return(Undefined)),
            CesiumRTCPlugin(parser, onCenterFound))

AfterRoot ==
  /\ Registered
  /\ Load("afterRoot", [scene |-> LoaderRoots.scene],
          afterRoot(this, heap, [scene |-> LoaderRoots.scene], LoaderRoots.log), this)

GetRTCCenter ==
  /\ Registered
  /\ Load("getRTCCenter", <<>>, Outcome(heap, getRTCCenter(this)), this)

PluginNext ==
  \/ Register
  \/ AfterRoot
  \/ GetRTCCenter

PluginSpec == Init /\ [][PluginNext]_vars

(* ----------------------------------------------------------------------- *)
(* react/PlateauTransform.tsx.  The component is this: its state, the      *)
(* group of its ref, and whether a render has left its effect to run.      *)
(* The THREE.Vector3 and THREE.Quaternion methods it calls are given by    *)
(* what they compute.                                                      *)
(* ----------------------------------------------------------------------- *)
\* Number.EPSILON, 2^-52
NumberEpsilon == FPow2(FDiv(Int2Num(1), Int2Num(67108864)))

\* Vector3.normalize: divideScalar(this.length() || 1)
Vector3Normalize(v) ==
  Only({Only({Vec(FMul(v.x, inverse), FMul(v.y, inverse), FMul(v.z, inverse))
            : inverse \in {FDiv(Int2Num(1), IF Truthy(length) THEN length ELSE Int2Num(1))}})
          : length \in {Vector3Length(v)}})

\* Quaternion.normalize
QuaternionNormalize(q) ==
  Only({IF IsZero(l) THEN Quat(Zero, Zero, Zero, Int2Num(1))
        ELSE Only({Quat(FMul(q.x, inverse), FMul(q.y, inverse), FMul(q.z, inverse),
                        FMul(q.w, inverse))
                     : inverse \in {FDiv(Int2Num(1), l)}})
          : l \in {FSqrt(FAdd(FAdd(FAdd(FMul(q.x, q.x), FMul(q.y, q.y)), FMul(q.z, q.z)),
                              FMul(q.w, q.w)))}})

\* Quaternion.setFromUnitVectors(vFrom, vTo): the rotation that takes vFrom
\* to vTo
setFromUnitVectors(vFrom, vTo) ==
  Only({QuaternionNormalize(
          IF FLt(r, NumberEpsilon)
          THEN IF FLt(FAbs(vFrom.z), FAbs(vFrom.x))
               THEN Quat(FNeg(vFrom.y), vFrom.x, Zero, Zero)
               ELSE Quat(Zero, FNeg(vFrom.z), vFrom.y, Zero)
          ELSE Quat(FSub(FMul(vFrom.y, vTo.z), FMul(vFrom.z, vTo.y)),
                    FSub(FMul(vFrom.z, vTo.x), FMul(vFrom.x, vTo.z)),
                    FSub(FMul(vFrom.x, vTo.y), FMul(vFrom.y, vTo.x)),
                    r))
          : r \in {FAdd(FAdd(FAdd(FMul(vFrom.x, vTo.x), FMul(vFrom.y, vTo.y)),
                             FMul(vFrom.z, vTo.z)), Int2Num(1))}})

\* useState({}) and useRef(new THREE.Group()); the effect of the first
\* render is still to run
PlateauTilesetTransform ==
  [state   |-> [offset |-> Undefined, rotation |-> Undefined],
   group   |-> [position |-> Vec(Zero, Zero, Zero),
                quaternion |-> Quat(Zero, Zero, Zero, Int2Num(1))],
   pending |-> TRUE]

\* the setCenter of the context: setState with a new offset and rotation,
\* which has the component render again
PlateauSetCenter(self, center) ==
  [self EXCEPT !.state = [offset   |-> Vec(Zero, FNeg(Vector3Length(center)), Zero),
                          rotation |-> setFromUnitVectors(Vector3Normalize(center),
                                                          Vec(Zero, Int2Num(1), Zero))],
               !.pending = TRUE]

\* the effect: if (offset && rotation) the group copies them
PlateauEffect(self) ==
  [self EXCEPT !.group = IF Present(self.state.offset) /\ Present(self.state.rotation)
                         THEN [position |-> self.state.offset,
                               quaternion |-> self.state.rotation]
                         ELSE @,
               !.pending = FALSE]

(* ----------------------------------------------------------------------- *)
(* The components under the provider: they call setCenter of the context,  *)
(* React renders and runs the effect, up to MaxRenders steps.              *)
(* ----------------------------------------------------------------------- *)
MaxRenders == 3

ContextCenters ==
  {Origin, IntVec(1, 0, 0), IntVec(0, 2, 0), IntVec(0, -2, 0), IntVec(0, 0, 3),
   TokyoCenter}

Mounted == this # Undefined /\ Len(hist) < MaxRenders

Mount ==
  /\ Fresh
  /\ Invoke("PlateauTilesetTransform", <<>>, Return(Undefined), PlateauTilesetTransform)

ContextSetCenter ==
  /\ Mounted
  /\ \E center \in ContextCenters :
       Invoke("setCenter", center, Return(Undefined), PlateauSetCenter(this, center))

RunEffect ==
  /\ Mounted /\ this.pending
  /\ Invoke("effect", <<>>, Return(Undefined), PlateauEffect(this))

ReactNext ==
  \/ Mount
  \/ ContextSetCenter
  \/ RunEffect

ReactSpec == Init /\ [][ReactNext]_vars

(* ----------------------------------------------------------------------- *)
(* Properties.  A property of a composition of calls is stated of the      *)
(* state after the second call: Prev is the call before it.                *)
(* ----------------------------------------------------------------------- *)
Prev == hist[Len(hist)]
Chained(first, second) == fn = second /\ hist # <<>> /\ Prev.fn = first

Within(a, b, tol) == IsFin(a) /\ IsFin(b) /\ FLe(FAbs(FSub(a, b)), tol)
WithinVec(u, v, tol) == Within(u.x, v.x, tol) /\ Within(u.y, v.y, tol) /\ Within(u.z, v.z, tol)
FiniteVec(v) == IsFin(v.x) /\ IsFin(v.y) /\ IsFin(v.z)

\* 1e-2, 1e-5, 1e-6 and the other tolerances of the statements
Tol1em2 == Dec(0, 1, 100)
Tol1em5 == Dec(0, 1, 100000)
Tol1em6 == Dec(0, 1, 1000000)
Tol5em3 == Dec(0, 5, 1000)
Tol5em2 == Dec(0, 5, 100)
Tol5em1 == Dec(0, 5, 10)
Deg90 == Int2Num(90)
Deg180 == Int2Num(180)
Up == IntVec(0, 1, 0)

HeightOf(g) == IF g.height = Undefined THEN Zero ELSE g.height

\* C1, as stated: the round trip geodetic -> ECEF -> geodetic recovers the
\* latitude and the longitude within 1e-5 degrees and the height within
\* 1e-2 m, for every latitude strictly between -90 and 90 degrees.
C1_RoundTripRecovers ==
  (Chained("geodeticToECEF", "ecefToGeodetic")
     /\ FLt(FNeg(Deg90), Prev.args.lat) /\ FLt(Prev.args.lat, Deg90)) =>
    /\ Within(ret.value.lat, Prev.args.lat, Tol1em5)
    /\ Within(ret.value.lon, Prev.args.lon, Tol1em5)
    /\ Within(ret.value.height, HeightOf(Prev.args), Tol1em2)

\* the round trip of (35.6762, 139.6503, 100) has lost the latitude and the height
C1_TokyoRoundTripLost ==
  /\ Chained("geodeticToECEF", "ecefToGeodetic")
  /\ Prev.args = Geo(TokyoGeo.lat, TokyoGeo.lon, Int2Num(100))
  /\ ~Within(ret.value.lat, Prev.args.lat, Tol1em5)
  /\ ~Within(ret.value.height, Prev.args.height, Int2Num(30))
  /\ Within(ret.value.lon, Prev.args.lon, Tol1em5)

NonZeroVec(v) == FiniteVec(v) /\ ~(IsZero(v.x) /\ IsZero(v.y) /\ IsZero(v.z))
AntiParallelToUp(v) == IsZero(v.x) /\ IsZero(v.z) /\ v.y.neg

\* C2, as stated: for a non-zero center not anti-parallel to +Y, the rotation
\* createECEFToLocalRotation(center) takes center / |center| to (0, 1, 0)
\* within 1e-6.
C2_RotationTakesCenterToUp ==
  (Chained("createECEFToLocalRotation", "applyQuaternion")
     /\ NonZeroVec(Prev.args) /\ ~AntiParallelToUp(Prev.args)) =>
    WithinVec(ret.value, Up, Tol1em6)

\* the center (1, 0, 0) is taken to (0, -1, 0)
C2_XAxisTakenToDown ==
  /\ Chained("createECEFToLocalRotation", "applyQuaternion")
  /\ Prev.args = IntVec(1, 0, 0)
  /\ WithinVec(ret.value, IntVec(0, -1, 0), Tol1em6)

\* createTransform's configuration for the options of createTransformMatrix
ConfigOf(center, options) ==
  [center   |-> center,
   rotation |-> IF options.autoRotate THEN createECEFToLocalRotation(center) ELSE Undefined,
   scale    |-> options.scale]

\* C3, as stated: the matrix of createTransformMatrix(center, options), applied
\* to a point, gives what the function of createTransform gives for the same
\* center, rotation and scale.
C3_MatrixAgreesWithTransform ==
  Chained("createTransformMatrix", "applyMatrix4") =>
    WithinVec(ret.value,
              TransformFn(createTransform(ConfigOf(Prev.args.center, Prev.args.options)), args),
              Tol1em6)

\* center (1, 0, 0), no rotation, scale 2, point (3, 0, 0): the matrix gives
\* 2 * 3 - 1 = 5 where the function gives (3 - 1) * 2 = 4
C3_MatrixScalesBeforeTranslating ==
  /\ Chained("createTransformMatrix", "applyMatrix4")
  /\ Prev.args = [center |-> IntVec(1, 0, 0),
                   options |-> [autoRotate |-> FALSE, scale |-> Int2Num(2)]]
  /\ args = IntVec(3, 0, 0)
  /\ ret.value = IntVec(5, 0, 0)
  /\ TransformFn(createTransform(ConfigOf(Prev.args.center, Prev.args.options)), args)
       = IntVec(4, 0, 0)

\* scale * rotate(p - center), the scale defaulting to 1
ScaledRotatedLocal(config, p) ==
  LET local   == ecefToLocal(p, config.center)
      rotated == IF config.rotation = Undefined THEN local
                 ELSE applyQuaternion(local, config.rotation)
      scale   == IF config.scale = Undefined THEN Int2Num(1) ELSE config.scale
  IN  Vec(FMul(rotated.x, scale), FMul(rotated.y, scale), FMul(rotated.z, scale))

\* C4: the function createTransform(config) returns computes
\* scale * rotate(p - center): the translation first, then the rotation if
\* there is one, then the scale (1 when absent); with no rotation and no
\* scale it is ecefToLocal(p, center).
C4_TranslateRotateScale ==
  Chained("createTransform", "transform") =>
    /\ ret.value = ScaledRotatedLocal(Prev.args, args)
    /\ (Prev.args.rotation = Undefined /\ Prev.args.scale \in {Undefined, Int2Num(1)}) =>
         ret.value = ecefToLocal(args, Prev.args.center)

\* a transform with a rotation and a scale of 2, applied to the Tokyo point
C4_RotatedScaledCall ==
  /\ Chained("createTransform", "transform")
  /\ Prev.args.center = TokyoCenter
  /\ Prev.args.rotation = createECEFToLocalRotation(TokyoCenter)
  /\ Prev.args.scale = Int2Num(2)
  /\ args = Tokyo
  /\ ret.value # ecefToLocal(args, Prev.args.center)

\* a + b is computed without rounding
ExactSum(a, b) == IsFin(a) /\ IsFin(b) /\ FAdd(a, b) = FAddExact(a, b)
ExactSumVec(u, v) == ExactSum(u.x, v.x) /\ ExactSum(u.y, v.y) /\ ExactSum(u.z, v.z)
NegVec(v) == Vec(FNeg(v.x), FNeg(v.y), FNeg(v.z))
Tol1em8 == Dec(0, 1, 100000000)

\* C5, as stated: localToECEF(ecefToLocal(p, c), c) = p and
\* ecefToLocal(localToECEF(q, c), c) = q, exactly, for all points and centers.
C5_ExactInverses ==
  (Chained("ecefToLocal", "localToECEF") \/ Chained("localToECEF", "ecefToLocal")) =>
    ret.value = Prev.args.point

\* C5, amended: the two are inverses up to rounding.  The round trip returns
\* the point exactly when the intermediate p - c (or q + c) is computed
\* without rounding, and within 1e-8 m for coordinates of Earth scale
\* otherwise.
C5_InversesUpToRounding ==
  /\ Chained("ecefToLocal", "localToECEF") =>
       /\ ExactSumVec(Prev.args.point, NegVec(Prev.args.center)) =>
            ret.value = Prev.args.point
       /\ WithinVec(ret.value, Prev.args.point, Tol1em8)
  /\ Chained("localToECEF", "ecefToLocal") =>
       /\ ExactSumVec(Prev.args.point, Prev.args.center) => ret.value = Prev.args.point
       /\ WithinVec(ret.value, Prev.args.point, Tol1em8)

\* a round trip about a center of Earth scale whose difference is exact, and
\* which returns the point
C5_ExactRoundTrip ==
  /\ Chained("ecefToLocal", "localToECEF")
  /\ Prev.args = [point |-> Tokyo, center |-> TokyoCenter]
  /\ ExactSumVec(Tokyo, NegVec(TokyoCenter))
  /\ args.point # Tokyo
  /\ ret.value = Tokyo

\* C6, as stated: for every finite input ecefToGeodetic returns a latitude in
\* [-90, 90] and a longitude in (-180, 180].
C6_AnglesInRange ==
  (fn = "ecefToGeodetic" /\ FiniteVec(args)) =>
    /\ FLe(FNeg(Deg90), ret.value.lat) /\ FLe(ret.value.lat, Deg90)
    /\ FLt(FNeg(Deg180), ret.value.lon) /\ FLe(ret.value.lon, Deg180)

\* the point (1000, 0, 0), 1 km from the centre, gets latitude 180
C6_NearCentreLatitude180 ==
  fn = "ecefToGeodetic" /\ args = NearCentre /\ ret.value.lat = Deg180

\* C7, as stated: at the pole of the ellipsoid, (0, 0, 6356752.314),
\* ecefToGeodetic returns latitude 90 within 0.005 and height 0 within 0.05.
C7_PoleOnSurface ==
  (fn = "ecefToGeodetic" /\ args = NorthPole) =>
    Within(ret.value.lat, Deg90, Tol5em3) /\ Within(ret.value.height, Zero, Tol5em2)

\* at the pole the latitude is 90 and the height is below -6399593 m
C7_PoleHeightIsMinusN ==
  /\ fn = "ecefToGeodetic" /\ args = NorthPole
  /\ Within(ret.value.lat, Deg90, Tol5em3)
  /\ FLt(ret.value.height, Int2Num(-6399593))

\* C8, as stated: ecefToGeodetic of the Tokyo point is (35.6762, 139.6503)
\* within 0.01 degrees and height 40 within 1 m, and geodeticToECEF of
\* (35.6762, 139.6503, 40) is the Tokyo point within 0.5 m.
C8_TokyoReference ==
  /\ (fn = "ecefToGeodetic" /\ args = Tokyo) =>
       /\ Within(ret.value.lat, TokyoGeo.lat, Tol1em2)
       /\ Within(ret.value.lon, TokyoGeo.lon, Tol1em2)
       /\ Within(ret.value.height, TokyoGeo.height, Int2Num(1))
  /\ (fn = "geodeticToECEF" /\ args = TokyoGeo) => WithinVec(ret.value, Tokyo, Tol5em1)

\* the Tokyo point converts to a longitude 0.09 degrees and a height 240 m
\* away from the reference
C8_TokyoGeodeticOff ==
  /\ fn = "ecefToGeodetic" /\ args = Tokyo
  /\ ~Within(ret.value.lon, TokyoGeo.lon, Dec(0, 9, 100))
  /\ ~Within(ret.value.height, TokyoGeo.height, Int2Num(240))

\* C9: ecefCenter throws 'Cannot calculate center of empty array', returning
\* no value, for an empty array, and never throws for a non-empty one.
C9_CenterThrowsIffEmpty ==
  fn = "ecefCenter" =>
    /\ ret.threw <=> Len(args) = 0
    /\ ret.threw => ret.message = "Cannot calculate center of empty array"
                     /\ ret.value = Undefined

C9_CenterOfEmptyArray == fn = "ecefCenter" /\ args = <<>> /\ ret.threw

\* C10: calculateBounds throws 'Cannot calculate bounds of empty array',
\* returning no value, for an empty array, and never throws for a non-empty
\* one.
C10_BoundsThrowsIffEmpty ==
  fn = "calculateBounds" =>
    /\ ret.threw <=> Len(args) = 0
    /\ ret.threw => ret.message = "Cannot calculate bounds of empty array"
                     /\ ret.value = Undefined

C10_BoundsOfEmptyArray == fn = "calculateBounds" /\ args = <<>> /\ ret.threw

(* ----------------------------------------------------------------------- *)
(* Properties of a TilesetTransform, stated of the latest call and the     *)
(* calls made on the object before it (hist, the constructor first).       *)
(* ----------------------------------------------------------------------- *)
\* a tile set whose root has a bounding volume with a center
HasBoundingCenter(tilesRenderer) ==
  /\ "root" \in DOMAIN tilesRenderer
  /\ "boundingVolume" \in DOMAIN tilesRenderer.root
  /\ "center" \in DOMAIN tilesRenderer.root.boundingVolume

\* a call that gives the object a center
Establishes(call) ==
  \/ call.fn = "constructor" /\ "center" \in DOMAIN call.args
  \/ call.fn = "setCenter"
  \/ call.fn = "updateFromTilesRenderer" /\ HasBoundingCenter(call.args)

NoCenterYet == \A i \in 1..Len(hist) : ~Establishes(hist[i])

\* C11: transformPoint throws 'Center must be set before transforming points'
\* exactly when no call so far has established a center, and getCenter and
\* getCenterGeodetic return undefined in exactly those states.
C11_ThrowsIffNoCenter ==
  /\ fn = "transformPoint" =>
       /\ ret.threw <=> NoCenterYet
       /\ ret.threw => ret.message = "Center must be set before transforming points"
  /\ fn \in {"getCenter", "getCenterGeodetic"} =>
       /\ ~ret.threw
       /\ ret.value = Undefined <=> NoCenterYet

\* a point is transformed by an object constructed without a center, after
\* setCenter
C11_TransformsAfterSetCenter ==
  /\ fn = "transformPoint" /\ ~ret.threw
  /\ Len(hist) = 2
  /\ hist[1].fn = "constructor" /\ "center" \notin DOMAIN hist[1].args
  /\ hist[2].fn = "setCenter"

(* ----------------------------------------------------------------------- *)
(* Properties of the core functions, continued.                            *)
(* ----------------------------------------------------------------------- *)
\* a value of the type number, NaN and the infinities included
IsNumber(n) == n.k \in {"fin", "inf", "nan"}
AllNumbers(r) == \A key \in DOMAIN r : IsNumber(r[key])
AllNaN(r) == \A key \in DOMAIN r : IsNaN(r[key])

\* C12: ecefToGeodetic, geodeticToECEF, ecefDistance,
\* createECEFToLocalRotation and applyQuaternion return a value for every
\* input, the Earth's center, the poles and a zero-length center included:
\* the value is what the arithmetic yields, NaN for the zero-length center.
C12_CoreFunctionsReturn ==
  /\ fn \in {"ecefToGeodetic", "geodeticToECEF", "createECEFToLocalRotation",
             "applyQuaternion"} => ~ret.threw /\ AllNumbers(ret.value)
  /\ fn = "ecefDistance" => ~ret.threw /\ IsNumber(ret.value)
  /\ (fn = "createECEFToLocalRotation" /\ args = Origin) => AllNaN(ret.value)
  /\ (fn = "applyQuaternion" /\ AllNaN(args.quaternion)) => AllNaN(ret.value)

\* the rotation for the center (0, 0, 0) is returned, and is NaN
C12_ZeroCenterGivesNaN ==
  /\ fn = "createECEFToLocalRotation" /\ args = Origin
  /\ ~ret.threw /\ IsNaN(ret.value.w)

Axes == {"x", "y", "z"}
\* the midpoint of two numbers, as JavaScript computes (lo + hi) / 2
Midpoint(lo, hi) == FDiv(FAdd(lo, hi), Int2Num(2))

\* C13: for a non-empty array calculateBounds returns min and max with
\* min <= point <= max for every point and every axis, each component of
\* min and of max is the component of some point, and center is
\* (min + max) / 2 on every axis.
C13_BoundsEncloseAndAttained ==
  (fn = "calculateBounds" /\ Len(args) > 0) =>
    /\ ~ret.threw
    /\ \A axis \in Axes :
         /\ \A i \in 1..Len(args) :
              /\ FLe(ret.value.min[axis], args[i][axis])
              /\ FLe(args[i][axis], ret.value.max[axis])
         /\ \E i \in 1..Len(args) : args[i][axis] = ret.value.min[axis]
         /\ \E i \in 1..Len(args) : args[i][axis] = ret.value.max[axis]
         /\ ret.value.center[axis] = Midpoint(ret.value.min[axis], ret.value.max[axis])
         /\ FLe(ret.value.min[axis], ret.value.center[axis])
         /\ FLe(ret.value.center[axis], ret.value.max[axis])

\* bounds whose min and max are no point of the array: min takes x from one
\* point and z from another
C13_BoundsMixPoints ==
  /\ fn = "calculateBounds" /\ args = <<IntVec(10, 10, 10), IntVec(20, 0, -10)>>
  /\ ~ret.threw
  /\ ret.value.min = IntVec(10, 0, -10) /\ ret.value.max = IntVec(20, 10, 10)
  /\ ret.value.center = IntVec(15, 5, 0)

\* the sum of the first n coordinates of an axis, added from the left
\* starting at 0, and whether no addition of it rounded
RECURSIVE LeftSum(_, _, _)
LeftSum(points, axis, n) ==
  IF n = 0 THEN Zero ELSE FAdd(LeftSum(points, axis, n - 1), points[n][axis])
RECURSIVE ExactSums(_, _, _)
ExactSums(points, axis, n) ==
  n = 0 \/ (/\ ExactSums(points, axis, n - 1)
            /\ ExactSum(LeftSum(points, axis, n - 1), points[n][axis]))
Copies(points) == \A i \in 1..Len(points) : points[i] = points[1]
TenTwenty == <<Origin, IntVec(10, 10, 10), IntVec(20, 20, 20)>>

QMul(a, b) ==
  Quat(FSub(FAdd(FAdd(FMul(a.w, b.x), FMul(a.x, b.w)), FMul(a.y, b.z)), FMul(a.z, b.y)),
       FSub(FAdd(FAdd(FMul(a.w, b.y), FMul(a.y, b.w)), FMul(a.z, b.x)), FMul(a.x, b.z)),
       FSub(FAdd(FAdd(FMul(a.w, b.z), FMul(a.z, b.w)), FMul(a.x, b.y)), FMul(a.y, b.x)),
       FSub(FSub(FSub(FMul(a.w, b.w), FMul(a.x, b.x)), FMul(a.y, b.y)), FMul(a.z, b.z)))
QConj(q) == Quat(FNeg(q.x), FNeg(q.y), FNeg(q.z), q.w)
Sandwich(p, q) ==
  Only({Vec(r.x, r.y, r.z) : r \in {QMul(QMul(q, Quat(p.x, p.y, p.z, Zero)), QConj(q))}})
QNormSquared(q) ==
  FAdd(FAdd(FAdd(FMul(q.x, q.x), FMul(q.y, q.y)), FMul(q.z, q.z)), FMul(q.w, q.w))
UnitQuaternion(q) == Within(QNormSquared(q), Int2Num(1), Tol1em8)
AxisAligned(q) ==
  /\ \A key \in DOMAIN q : q[key] \in {Zero, Int2Num(1), Int2Num(-1)}
  /\ QNormSquared(q) = Int2Num(1)
\* a whole number: no limb below that of 1 is set
IsInteger(a) ==
  IsFin(a) /\ (IsZero(a) \/ (Len(a.mag) >= Len(One)
                              /\ \A i \in 1..(Len(One) - 1) : a.mag[i] = 0))
IntegerVec(p) == \A axis \in Axes : IsInteger(p[axis])

\* C15: for a unit quaternion q, applyQuaternion(p, q) is the vector part
\* of the quaternion product q * (p, 0) * conj(q), with that sign and that
\* order: exactly for the axis-aligned unit quaternions and integer points,
\* and up to the rounding of the products otherwise.
C15_IsQuaternionSandwich ==
  (fn = "applyQuaternion" /\ UnitQuaternion(args.quaternion)) =>
    /\ ~ret.threw
    /\ WithinVec(ret.value, Sandwich(args.point, args.quaternion), Tol1em8)
    /\ (AxisAligned(args.quaternion) /\ IntegerVec(args.point)) =>
         ret.value = Sandwich(args.point, args.quaternion)

\* a quarter turn about z takes (1, 2, 3) to (-2, 1, 3), not to (2, -1, 3)
C15_QuarterTurnAboutZ ==
  /\ fn = "applyQuaternion" /\ args.point = IntVec(1, 2, 3)
  /\ args.quaternion = Quat(Zero, Zero, RootHalf, RootHalf)
  /\ WithinVec(ret.value, IntVec(-2, 1, 3), Tol1em8)

\* the heap as createTransform left it, and the values a config has in a heap
HeapAtCreation ==
  hist[CHOOSE i \in 1..Len(hist) : hist[i].fn = "createTransform"].heap
ConfigIn(h, config) ==
  [center   |-> Deref(h, h[config.ref].center),
   rotation |-> Deref(h, h[config.ref].rotation),
   scale    |-> IF h[config.ref].scale = Undefined THEN Int2Num(1) ELSE h[config.ref].scale]
\* what the function returns for the config as it was at its creation
SnapshotResult == TransformFn(ConfigIn(HeapAtCreation, Roots.config), heap[args.ecef.ref])

\* C16: the function returned by createTransform works on a snapshot of
\* the config: whatever the caller assigns afterwards to config.center,
\* config.rotation, config.scale, config.center.x or config.rotation.w,
\* every later call returns what the config of the creation gives.
C16_ClosureUsesSnapshot ==
  fn = "transform" => ~ret.threw /\ heap[ret.value.ref] = SnapshotResult

\* created with center (1, 0, 0), called after config.center.x = 5: the
\* function subtracts the center (5, 0, 0)
C16_AssignedCenterXIsSeen ==
  /\ fn = "transform" /\ hist # <<>> /\ Prev.fn = "config.center.x ="
  /\ HeapAtCreation[HeapAtCreation[Roots.config.ref].center.ref] = IntVec(1, 0, 0)
  /\ heap[ret.value.ref] # SnapshotResult
  /\ heap[ret.value.ref] =
       TransformFn([ConfigIn(HeapAtCreation, Roots.config) EXCEPT !.center = IntVec(5, 0, 0)],
                   heap[args.ecef.ref])

CoreCalls ==
  {"ecefCenter", "calculateBounds", "ecefToLocal", "localToECEF", "applyQuaternion",
   "createTransform", "transform"}
\* the objects there were before the last step
Before == 1..Len(Prev.heap)
PointsOf(h) == {h[Roots.points.ref].at[i].ref : i \in 1..h[Roots.points.ref].length}

\* C17: a call of ecefCenter, calculateBounds, ecefToLocal, localToECEF,
\* applyQuaternion, createTransform or the function it returns leaves every
\* object there was before the call as it was; min, max and center of the
\* bounds are three new objects, and assigning to min and max changes no
\* other object, no point of the array in particular.
C17_NoSideEffects ==
  /\ (fn \in CoreCalls /\ hist # <<>>) =>
       \A a \in Before : heap[a] = Prev.heap[a]
  /\ (fn = "calculateBounds" /\ ~ret.threw) =>
       /\ {ret.value.min.ref, ret.value.max.ref, ret.value.center.ref} \cap Before = {}
       /\ Cardinality({ret.value.min.ref, ret.value.max.ref, ret.value.center.ref}) = 3
  /\ fn = "bounds.min.x = bounds.max.x =" =>
       /\ \A a \in Before \ {args.min.ref, args.max.ref} : heap[a] = Prev.heap[a]
       /\ \A p \in PointsOf(heap) : heap[p] = hist[1].heap[p]

\* the caller has assigned to min.x and max.x of the bounds of its array,
\* and the first point of the array is still (10, 10, 10)
C17_AssignedBoundsLeavePoints ==
  /\ fn = "bounds.min.x = bounds.max.x =" /\ hist # <<>> /\ Prev.fn = "calculateBounds"
  /\ heap[args.min.ref].x = Int2Num(-1) /\ heap[args.max.ref].x = Int2Num(99)
  /\ heap[heap[Roots.points.ref].at[1].ref] = IntVec(10, 10, 10)

\* C18: ecefDistance(p1, p2) is 0 if and only if p1 and p2 have the same
\* coordinates, and greater than 0 whenever they differ in a component.
C18_ZeroIffEqual ==
  fn = "ecefDistance" =>
    /\ ~ret.threw
    /\ IsZero(ret.value) <=> args.p1 = args.p2
    /\ args.p1 # args.p2 => FLt(Zero, ret.value)

\* the distance from (0, 0, 0) to (Number.MIN_VALUE, 0, 0) is 0: the
\* square of the difference underflows
C18_SquareUnderflowsToZero ==
  /\ fn = "ecefDistance"
  /\ args.p1 = Origin /\ args.p2 = Vec(MinValue, Zero, Zero) /\ args.p1 # args.p2
  /\ ~ret.threw /\ ret.value = Zero

\* the sum of the squares of the differences p1 - p2
SquaredNorm(p1, p2) ==
  FAdd(FAdd(FPow2(FSub(p1.x, p2.x)), FPow2(FSub(p1.y, p2.y))), FPow2(FSub(p1.z, p2.z)))

\* C19: ecefDistance(p1, p2) = ecefDistance(p2, p1) = sqrt(dx^2 + dy^2 +
\* dz^2), the Euclidean norm of the difference of the points, and the
\* distance from (0, 0, 0) to (3, 4, 0) is exactly 5.
C19_SymmetricEuclideanNorm ==
  fn = "ecefDistance" =>
    /\ ~ret.threw
    /\ ret.value = ecefDistance(args.p2, args.p1)
    /\ ret.value = FSqrt(SquaredNorm(args.p1, args.p2))
    /\ (args.p1 = Origin /\ args.p2 = IntVec(3, 4, 0)) => ret.value = Int2Num(5)

C19_ThreeFourFive ==
  /\ fn = "ecefDistance" /\ args.p1 = Origin /\ args.p2 = IntVec(3, 4, 0)
  /\ ret.value = Int2Num(5)

\* 2^-50, four units in the last place of a number between 1 and 2
RoundingSlack == FPow2(FDiv(Int2Num(1), Int2Num(33554432)))
\* the points a detour is made by
Waypoints ==
  {Origin, IntVec(1, 1, 0), IntVec(3, 4, 0), Tenths, Tokyo, Vec(MinValue, Zero, Zero)}
\* the sum of the distances by way of b
Detour(a, b, c) == FAdd(ecefDistance(a, b), ecefDistance(b, c))

C21_EquatorPrimeMeridian ==
  /\ (fn = "geodeticToECEF" /\ args \in {Geo(Zero, Zero, Zero), Geo(Zero, Zero, Undefined)}) =>
       ~ret.threw /\ ret.value = IntVec(6378137, 0, 0)
  /\ (fn = "ecefToGeodetic" /\ args = IntVec(6378137, 0, 0)) =>
       ~ret.threw /\ ret.value = Geo(Zero, Zero, Zero)

\* geodeticToECEF(0, 0) with the height omitted has returned (6378137, 0, 0),
\* and ecefToGeodetic of that point lat 0, lon 0, height 0
C21_EquatorWithoutHeight ==
  /\ Chained("geodeticToECEF", "ecefToGeodetic")
  /\ Prev.args = Geo(Zero, Zero, Undefined) /\ Prev.ret.value = IntVec(6378137, 0, 0)
  /\ args = IntVec(6378137, 0, 0) /\ ret.value = Geo(Zero, Zero, Zero)

\* the asset the plugin was registered for has extensions.CESIUM_RTC.center
HasRTCCenter ==
  /\ "json" \in DOMAIN this.parser
  /\ "extensions" \in DOMAIN this.parser.json
  /\ "CESIUM_RTC" \in DOMAIN this.parser.json.extensions
  /\ "center" \in DOMAIN this.parser.json.extensions.CESIUM_RTC
  /\ this.parser.json.extensions.CESIUM_RTC.center # Null
RTCCenter == this.parser.json.extensions.CESIUM_RTC.center
RTCCenterVec == Vec(heap[RTCCenter.ref].at[1], heap[RTCCenter.ref].at[2], heap[RTCCenter.ref].at[3])
SceneNow == heap[LoaderRoots.scene.ref]
SceneBefore == Prev.heap[LoaderRoots.scene.ref]
LogNow == heap[LoaderRoots.log.ref]
LogBefore == Prev.heap[LoaderRoots.log.ref]
\* the scene has the center as its position and in userData.cesiumRTC
CenterApplied ==
  /\ SceneNow.position = RTCCenterVec
  /\ "cesiumRTC" \in DOMAIN SceneNow.userData
  /\ SceneNow.userData.cesiumRTC = [center |-> RTCCenter]
  /\ \A key \in DOMAIN SceneBefore.userData \ {"cesiumRTC"} :
       SceneNow.userData[key] = SceneBefore.userData[key]
GetRTCCenterAgrees ==
  fn = "getRTCCenter" =>
    ~ret.threw /\ ret.value = (IF HasRTCCenter THEN RTCCenter ELSE Null)

\* C22, as stated: afterRoot always returns null; with
\* extensions.CESIUM_RTC.center it sets the scene's position to the center
\* and records it in scene.userData.cesiumRTC.center, without it it leaves
\* the scene as it was and does not call onCenterFound; getRTCCenter returns
\* the center in the same cases and null otherwise.
C22_AfterRootAlwaysNull ==
  /\ fn = "afterRoot" =>
       /\ ~ret.threw /\ ret.value = Null
       /\ HasRTCCenter => CenterApplied
       /\ ~HasRTCCenter => heap = Prev.heap
  /\ GetRTCCenterAgrees

\* C22, amended: afterRoot returns null unless onCenterFound throws, and
\* then it throws what the callback threw; when it returns, the scene is
\* as stated, and getRTCCenter is as stated.
C22_AfterRootNullUnlessCallbackThrows ==
  /\ fn = "afterRoot" =>
       /\ ret.threw <=> (HasRTCCenter /\ this.centerCallback = CallbackThrows)
       /\ ~ret.threw => ret.value = Null
       /\ ret.threw => ret.message = "onCenterFound failed"
       /\ (HasRTCCenter /\ ~ret.threw) => CenterApplied
       /\ ~HasRTCCenter => heap = Prev.heap
  /\ GetRTCCenterAgrees

\* afterRoot has moved the scene from (7, 8, 9) to the center (1, 2, 3) and
\* recorded the center beside the userData there was
C22_SceneMovedToCenter ==
  /\ fn = "afterRoot" /\ HasRTCCenter /\ ~ret.threw /\ ret.value = Null
  /\ SceneBefore.position = IntVec(7, 8, 9) /\ SceneNow.position = IntVec(1, 2, 3)
  /\ SceneNow.userData = [name |-> "tile", cesiumRTC |-> [center |-> LoaderRoots.center]]

\* C28: with a center and a callback, afterRoot calls onCenterFound exactly
\* once, with the center array, when the position is set and
\* userData.cesiumRTC is not yet written; if the callback throws, the
\* position has changed and userData.cesiumRTC is not stored.
C28_CallbackBetweenPositionAndUserData ==
  fn = "afterRoot" =>
    /\ (HasRTCCenter /\ Present(this.centerCallback)) =>
         /\ LogNow.length = LogBefore.length + 1
         /\ \A i \in 1..LogBefore.length : LogNow.at[i] = LogBefore.at[i]
         /\ LogNow.at[LogNow.length].center = RTCCenter
         /\ LogNow.at[LogNow.length].scene.position = RTCCenterVec
         /\ LogNow.at[LogNow.length].scene.userData = SceneBefore.userData
         /\ this.centerCallback = CallbackThrows =>
              /\ ret.threw
              /\ SceneNow.position = RTCCenterVec
              /\ SceneNow.userData = SceneBefore.userData
         /\ this.centerCallback = CallbackReturns =>
              ~ret.threw /\ SceneNow.userData.cesiumRTC = [center |-> RTCCenter]
    /\ ~(HasRTCCenter /\ Present(this.centerCallback)) => LogNow = LogBefore

\* the callback has thrown in the first afterRoot: the scene is at the
\* center and has no userData.cesiumRTC
C28_ThrownAfterPositionSet ==
  /\ fn = "afterRoot" /\ ret.threw /\ Prev.fn = "constructor"
  /\ SceneBefore.position = IntVec(7, 8, 9) /\ SceneNow.position = IntVec(1, 2, 3)
  /\ "cesiumRTC" \notin DOMAIN SceneNow.userData
  /\ LogNow.length = 1

\* the calls of setCenter made so far, and the center of the last of them
SetCenterCalls == {i \in 1..Len(hist) : hist[i].fn = "setCenter"}
LastCenter == hist[CHOOSE i \in SetCenterCalls : \A j \in SetCenterCalls : j <= i].args
WithinQuat(p, q, tol) ==
  Within(p.x, q.x, tol) /\ Within(p.y, q.y, tol) /\ Within(p.z, q.z, tol)
  /\ Within(p.w, q.w, tol)
GroupUntouched ==
  /\ this.group.position = Vec(Zero, Zero, Zero)
  /\ this.group.quaternion = Quat(Zero, Zero, Zero, Int2Num(1))

\* C23: after setCenter(c1), ..., setCenter(cn) of the context and the run
\* of the effect, the group's position is (0, -|cn|, 0) and its quaternion
\* is the one createECEFToLocalRotation(cn) returns; before the first
\* setCenter the group's position and quaternion are the initial ones.
C23_EffectAppliesCoreRotation ==
  /\ (fn = "effect" /\ SetCenterCalls # {}) =>
       /\ this.group.position = Vec(Zero, FNeg(Vector3Length(LastCenter)), Zero)
       /\ WithinQuat(this.group.quaternion, createECEFToLocalRotation(LastCenter), Tol1em6)
  /\ (fn \in {"PlateauTilesetTransform", "effect"} /\ SetCenterCalls = {}) => GroupUntouched

\* after setCenter((1, 0, 0)) and the effect the group's quaternion is
\* (0, 0, sqrt(1/2), sqrt(1/2)), which takes the center to +Y: the conjugate
\* of the quaternion createECEFToLocalRotation returns
C23_AdapterRotatesTheOtherWay ==
  /\ fn = "effect" /\ SetCenterCalls # {} /\ LastCenter = IntVec(1, 0, 0)
  /\ this.group.position = IntVec(0, -1, 0)
  /\ WithinQuat(this.group.quaternion, Quat(Zero, Zero, RootHalf, RootHalf), Tol1em6)
  /\ WithinQuat(this.group.quaternion, QConj(createECEFToLocalRotation(LastCenter)), Tol1em6)
  /\ ~WithinQuat(this.group.quaternion, createECEFToLocalRotation(LastCenter), Tol1em6)
  /\ WithinVec(applyQuaternion(LastCenter, this.group.quaternion), IntVec(0, 1, 0), Tol1em6)

\* the magnitude of the cross product of center / |center| and +Y
CrossWithUp(center) ==
  Only({FSqrt(FAdd(FPow2(d.x), FPow2(d.z))) : d \in {Normalize(center)}})
Identity == Quat(Zero, Zero, Zero, Int2Num(1))
OnYAxis(v) == IsZero(v.x) /\ IsZero(v.z) /\ ~IsZero(v.y) /\ IsFin(v.y)

\* C24: when the cross product of the normalized center and +Y has a
\* magnitude below 0.00001, as it has for a center (0, L, 0) or (0, -L, 0),
\* createECEFToLocalRotation returns exactly (0, 0, 0, 1); for (0, -L, 0)
\* the rotation therefore leaves the direction of the center at -Y.
C24_DegenerateIsIdentity ==
  /\ fn = "createECEFToLocalRotation" =>
       /\ FLt(CrossWithUp(args), AxisEpsilon) => ret.value = Identity
       /\ OnYAxis(args) => FLt(CrossWithUp(args), AxisEpsilon) /\ ret.value = Identity
  /\ (Chained("createECEFToLocalRotation", "applyQuaternion") /\ OnYAxis(Prev.args)
        /\ AntiParallelToUp(Prev.args)) =>
       args.quaternion = Identity /\ ret.value = IntVec(0, -1, 0)

\* the center (0, -6378137, 0) has got the identity, and its direction has
\* stayed (0, -1, 0)
C24_AntiParallelStaysDown ==
  /\ Chained("createECEFToLocalRotation", "applyQuaternion")
  /\ Prev.args = IntVec(0, -6378137, 0) /\ Prev.ret.value = Identity
  /\ ret.value = IntVec(0, -1, 0)

\* C25: the quaternion createECEFToLocalRotation returns for a non-zero
\* finite center has x^2 + y^2 + z^2 + w^2 = 1 within 1e-8, and y = 0.
C25_RotationIsUnit ==
  (fn = "createECEFToLocalRotation" /\ NonZeroVec(args)) =>
    /\ ~ret.threw
    /\ UnitQuaternion(ret.value)
    /\ ret.value.y = Zero

\* the center (Number.MIN_VALUE, 0, 0) has got a quaternion of NaN: the
\* square of x underflows, the length is 0
C25_TinyCenterGivesNaN ==
  /\ fn = "createECEFToLocalRotation" /\ args = Vec(MinValue, Zero, Zero) /\ NonZeroVec(args)
  /\ AllNaN(ret.value)

\* the same, for the centers whose length does not underflow
C25_UnitUnlessUnderflow ==
  (fn = "createECEFToLocalRotation" /\ NonZeroVec(args) /\ args # Vec(MinValue, Zero, Zero)) =>
    UnitQuaternion(ret.value) /\ ret.value.y = Zero

\* where the group puts a point of its children: the point scaled, turned
\* by the group's quaternion and moved by its position
GroupPlacement(self, p) ==
  Only({Vec(FAdd(turned.x, self.position.x), FAdd(turned.y, self.position.y),
            FAdd(turned.z, self.position.z))
          : turned \in {applyQuaternion(Vec(FMul(p.x, self.scale.x), FMul(p.y, self.scale.y),
                                            FMul(p.z, self.scale.z)),
                                        self.quaternion)}})
\* autoRotate enabled, no offset given, scale 1
PlainOptions(self) ==
  /\ self.options.autoRotate
  /\ "offset" \notin DOMAIN self.options
  /\ self.options.scale = Int2Num(1)
PlacedPoints == {IntVec(1, 2, 3), IntVec(1, 0, 0), TokyoCenter}

\* C26: after setCenter(c) with autoRotate enabled, no offset and scale 1
\* the group's placement takes the ECEF point c to (0, 0, 0) and agrees
\* with transformPoint(p) for every point p.
C26_PlacementAgreesWithTransformPoint ==
  (this # Undefined /\ "options" \in DOMAIN this /\ Present(this._center)
     /\ PlainOptions(this)) =>
    /\ WithinVec(GroupPlacement(this, this._center), Origin, Tol1em6)
    /\ \A p \in PlacedPoints :
         WithinVec(GroupPlacement(this, p), transformPoint(this, p).value, Tol1em6)

\* after setCenter((1, 0, 0)) the group puts the center at (0, -2, 0), and
\* transformPoint takes it to (0, 0, 0)
C26_CenterPlacedBelowOrigin ==
  /\ fn = "setCenter" /\ args = IntVec(1, 0, 0) /\ PlainOptions(this)
  /\ this._center = IntVec(1, 0, 0)
  /\ WithinVec(GroupPlacement(this, this._center), IntVec(0, -2, 0), Tol1em6)
  /\ WithinVec(transformPoint(this, this._center).value, Origin, Tol1em6)

\* the function createTransform returns for the center, the autoRotate flag
\* and the scale of the object
EquivalentTransform(self, p) ==
  TransformFn([center   |-> self._center,
               rotation |-> IF self.options.autoRotate
                            THEN createECEFToLocalRotation(self._center) ELSE Undefined,
               scale    |-> self.options.scale],
              p)

\* C27: for every center, autoRotate flag and scale, scale 0 included,
\* transformPoint(p) returns the coordinates createTransform({center,
\* rotation: autoRotate ? createECEFToLocalRotation(center) : undefined,
\* scale})(p) returns; with autoRotate false no rotation is applied.
C27_TransformPointIsCreateTransform ==
  (fn = "transformPoint" /\ ~ret.threw) =>
    /\ WithinVec(ret.value, EquivalentTransform(this, args), Tol1em6)
    /\ ~this.options.autoRotate =>
         WithinVec(ret.value,
                   Vec(FMul(FSub(args.x, this._center.x), this.options.scale),
                       FMul(FSub(args.y, this._center.y), this.options.scale),
                       FMul(FSub(args.z, this._center.z), this.options.scale)),
                   Tol1em6)

\* with scale 0, autoRotate false and the center (1, 0, 0), transformPoint
\* returns (0, 2, 3) for (1, 2, 3) where the function of createTransform
\* returns (0, 0, 0)
C27_ScaleZeroIsNotApplied ==
  /\ fn = "transformPoint" /\ ~ret.threw /\ args = IntVec(1, 2, 3)
  /\ this.options.scale = Zero /\ ~this.options.autoRotate
  /\ this._center = IntVec(1, 0, 0)
  /\ ret.value = IntVec(0, 2, 3)
  /\ EquivalentTransform(this, args) = Origin

\* the same, for every scale but 0
C27_EquivalentUnlessScaleZero ==
  (fn = "transformPoint" /\ ~ret.threw /\ this.options.scale # Zero) =>
    WithinVec(ret.value, EquivalentTransform(this, args), Tol1em6)

\* the center of the root's bounding volume, as the object setCenter takes
BoundingCenter(tilesRenderer) ==
  Vec(Elem(tilesRenderer.root.boundingVolume.center, 0),
      Elem(tilesRenderer.root.boundingVolume.center, 1),
      Elem(tilesRenderer.root.boundingVolume.center, 2))

\* C29: updateFromTilesRenderer leaves the stored center, the rotation and
\* the group's position, quaternion and scale unchanged when the renderer has
\* no root, no root.boundingVolume or no boundingVolume.center; otherwise
\* the object is the one setCenter({x: center[0], y: center[1], z: center[2]})
\* leaves.
C29_UpdateIsSetCenterOrNothing ==
  fn = "updateFromTilesRenderer" =>
    IF HasBoundingCenter(args)
    THEN this = setCenter(Prev.this, BoundingCenter(args))
    ELSE /\ this._center = Prev.this._center
         /\ this._rotation = Prev.this._rotation
         /\ this.position = Prev.this.position
         /\ this.quaternion = Prev.this.quaternion
         /\ this.scale = Prev.this.scale

\* a renderer without a root left the object as constructed, and a renderer
\* whose bounding volume has the center [0, 3, 4] then moved it there
C29_UpdatedFromBoundingSphere ==
  /\ fn = "updateFromTilesRenderer" /\ HasBoundingCenter(args)
  /\ Len(hist) = 2
  /\ hist[2].fn = "updateFromTilesRenderer" /\ ~HasBoundingCenter(hist[2].args)
  /\ hist[2].this = hist[1].this
  /\ this # Prev.this
  /\ this._center = IntVec(0, 3, 4)
  /\ this.position = IF "offset" \in DOMAIN hist[1].args THEN Origin ELSE IntVec(0, -5, 0)

\* the options the object was constructed with
GivenOptions == IF fn = "constructor" THEN args ELSE hist[1].args

\* C30: after any sequence of setCenter calls the state depends only on the
\* options and the last center c: getCenter returns c, the position is
\* options.offset when one was given and (0, -|c|, 0) otherwise, the
\* quaternion is createECEFToLocalRotation(c) when autoRotate is enabled and
\* untouched otherwise, the group scale is options.scale when it is set and
\* differs from 1, and a second setCenter(c) leaves the state as it is.
C30_StateFromOptionsAndLastCenter ==
  fn = "setCenter" =>
    /\ getCenter(this) = Return(args)
    /\ this.position = IF "offset" \in DOMAIN GivenOptions THEN GivenOptions.offset
                       ELSE Vec(Zero, FNeg(Vector3Length(args)), Zero)
    /\ this.quaternion = IF this.options.autoRotate THEN createECEFToLocalRotation(args)
                         ELSE Prev.this.quaternion
    /\ ("scale" \in DOMAIN GivenOptions /\ GivenOptions.scale # Int2Num(1)) =>
         this.scale = Vec(GivenOptions.scale, GivenOptions.scale, GivenOptions.scale)
    /\ setCenter(this, args) = this

\* constructed with scale 0, the group keeps the scale (1, 1, 1) after
\* setCenter
C30_ScaleZeroLeavesGroupScale ==
  /\ fn = "setCenter" /\ args = IntVec(1, 0, 0)
  /\ "scale" \in DOMAIN GivenOptions /\ GivenOptions.scale = Zero
  /\ this.options.scale = Zero
  /\ this.scale = IntVec(1, 1, 1)
  /\ this._center = args

\* the same, for every scale but 0
C30_StateUnlessScaleZero ==
  (fn = "setCenter" /\ this.options.scale # Zero) =>
    /\ getCenter(this) = Return(args)
    /\ this.position = IF "offset" \in DOMAIN GivenOptions THEN GivenOptions.offset
                       ELSE Vec(Zero, FNeg(Vector3Length(args)), Zero)
    /\ this.quaternion = IF this.options.autoRotate THEN createECEFToLocalRotation(args)
                         ELSE Prev.this.quaternion
    /\ ("scale" \in DOMAIN GivenOptions /\ GivenOptions.scale # Int2Num(1)) =>
         this.scale = Vec(GivenOptions.scale, GivenOptions.scale, GivenOptions.scale)
    /\ setCenter(this, args) = this

====
